---- MODULE Spec2Model ----
(***************************************************************************)
(* DG-LAB device core: the V3 output state and its 100ms output loop, the  *)
(* three device kinds behind the Device trait (CoyoteDevice,               *)
(* WsCoyoteDevice, BleWsBridgeDevice), the emergency-stop command and the  *)
(* relay (WebSocket) session state kept by WsClient.                       *)
(*                                                                         *)
(* Strings that the code builds by formatting are modelled as tuples of    *)
(* their segments.                                                         *)
(***************************************************************************)
EXTENDS Integers, Sequences, FiniteSets, TLC

VARIABLES
    kind,       \* which Device implementation the handle in the registry is
    coy,        \* CoyoteDevice (stand-alone, or BridgeInner.ble_device)
    ws,         \* WsCoyoteDevice
    bridge,     \* BleWsBridgeDevice
    ws_client,  \* inner.ws_client: None or the ClientState of the WsClient
    lastB0,     \* the B0Command most recently built by build_b0
    ret,        \* result of the most recent call through the Device trait
    calls,      \* per channel: successful set_power calls since the last build_b0
    lastVal,    \* per channel: value of the most recent successful set_power
    allocs,     \* the last two sequence numbers handed out by next_sequence (0: none yet)
    lastFrame,  \* the relay frame most recently handled by the receive task
    bindSeen,   \* a bind-success frame has been handled by this session
    waiter,     \* the wait_for_bind call of a bridge connect in progress
    link,       \* the bridge's forwarding tasks and their queues
    mgr,        \* the SessionManager, its devices and their event forwarders
    sess,       \* the SessionManager's calls in progress and its locks
    codec,      \* the value, buffer and result of a codec call
    wire,       \* a CoyoteDevice's transport log, inbound frames and published events
    locks,      \* the bridge's two mutexes and the parties that take them
    atom        \* set_power and build_b0 between their atomic operations

vars == <<kind, coy, ws, bridge, ws_client, lastB0, ret, calls, lastVal,
          allocs, lastFrame, bindSeen, waiter, link, mgr, sess, codec, wire, locks, atom>>

----------------------------------------------------------------------------
(* Program constants *)

MAX_STRENGTH == 200

BaseMaxPower == 100

U8 == 256

SeqModulus == 15

(* Bounds of the exploration *)

MaxSeq == 2

MaxDetached == 1

\* Sequence numbers the output loops of the lifecycle exploration hand out.
MaxLoopSeq == 1

None == "None"

----------------------------------------------------------------------------
(* dglab_protocol::v3 data *)

WaveformSilent == [frequency |-> <<0, 0, 0, 0>>, intensity |-> <<0, 0, 0, 101>>]

WaveformUniform(f, i) == [frequency |-> <<f, f, f, f>>, intensity |-> <<i, i, i, i>>]

\* Variant of compress_frequency whose middle range is not rebased.
compress_frequency_unbased(input) ==
    IF input >= 10 /\ input <= 100 THEN input
    ELSE IF input >= 101 /\ input <= 600 THEN (input - 100) \div 5
    ELSE IF input >= 601 /\ input <= 1000 THEN ((input - 600) \div 10) + 200
    ELSE 10

compress_frequency(input) ==
    IF input >= 10 /\ input <= 100 THEN input
    ELSE IF input >= 101 /\ input <= 600 THEN ((input - 100) \div 5) + 100
    ELSE IF input >= 601 /\ input <= 1000 THEN ((input - 600) \div 10) + 200
    ELSE 10

Min(a, b) == IF a < b THEN a ELSE b

Max(a, b) == IF a > b THEN a ELSE b

decompress_frequency_coarse(value) == (value \div 5) * 5

decompress_frequency(value) ==
    IF value >= 10 /\ value <= 100 THEN value
    ELSE IF value >= 101 /\ value <= 200 THEN (value - 100) * 5 + 100
    ELSE IF value >= 201 /\ value <= 240 THEN (value - 200) * 10 + 600
    ELSE 10

(* dglab_protocol::v3 codec.  A buffer is the tuple of its bytes; byte i of *)
(* the code is element i + 1.                                              *)

B0_HEAD == 176

BF_HEAD == 191

B1_HEAD == 177

B0_LENGTH == 20

BF_LENGTH == 7

B1_LENGTH == 4

U16 == 65536

\* The discriminant of a ChannelStrengthMode (self as u8).
ChannelStrengthMode_as_u8(mode) ==
    CASE mode = "NoChange" -> 0
      [] mode = "Increase" -> 1
      [] mode = "Decrease" -> 2
      [] mode = "Absolute" -> 3

ChannelStrengthMode_from(value) ==
    CASE value % 4 = 0 -> "NoChange"
      [] value % 4 = 1 -> "Increase"
      [] value % 4 = 2 -> "Decrease"
      [] value % 4 = 3 -> "Absolute"

StrengthMode_encode(mode) ==
    ((ChannelStrengthMode_as_u8(mode.channel_a) * 4) % U8)
        + ChannelStrengthMode_as_u8(mode.channel_b)

StrengthMode_decode(value) ==
    [channel_a |-> ChannelStrengthMode_from((value \div 4) % 4),
     channel_b |-> ChannelStrengthMode_from(value % 4)]

WaveformData_encode(wave) == wave.frequency \o wave.intensity

WaveformData_decode(data) ==
    IF Len(data) < 8 THEN <<>>
    ELSE <<[frequency |-> SubSeq(data, 1, 4), intensity |-> SubSeq(data, 5, 8)]>>

\* Variant of encode with the mode in the high nibble and the sequence in
\* the low one.
B0Command_encode_nibbles(cmd) ==
    <<B0_HEAD,
      ((StrengthMode_encode(cmd.strength_mode) % 16) * 16) + (cmd.sequence % 16),
      IF cmd.strength_a <= MAX_STRENGTH THEN cmd.strength_a ELSE 0,
      IF cmd.strength_b <= MAX_STRENGTH THEN cmd.strength_b ELSE 0>>
        \o WaveformData_encode(cmd.waveform_a)
        \o WaveformData_encode(cmd.waveform_b)

\* (sequence & 0x0F) << 4 | (mode & 0x0F): the two nibbles do not overlap.
B0Command_encode(cmd) ==
    <<B0_HEAD,
      (((cmd.sequence % 16) * 16) % U8) + (StrengthMode_encode(cmd.strength_mode) % 16),
      IF cmd.strength_a <= MAX_STRENGTH THEN cmd.strength_a ELSE 0,
      IF cmd.strength_b <= MAX_STRENGTH THEN cmd.strength_b ELSE 0>>
        \o WaveformData_encode(cmd.waveform_a)
        \o WaveformData_encode(cmd.waveform_b)

\* Variant of decode that reads the two strengths in the other order.
B0Command_decode_swapped(data) ==
    IF Len(data) < B0_LENGTH THEN <<>>
    ELSE IF data[1] # B0_HEAD THEN <<>>
    ELSE <<[sequence      |-> (data[2] \div 16) % 16,
            strength_mode |-> StrengthMode_decode(data[2] % 16),
            strength_a    |-> data[4],
            strength_b    |-> data[3],
            waveform_a    |-> WaveformData_decode(SubSeq(data, 5, 12))[1],
            waveform_b    |-> WaveformData_decode(SubSeq(data, 13, 20))[1]]>>

B0Command_decode(data) ==
    IF Len(data) < B0_LENGTH THEN <<>>
    ELSE IF data[1] # B0_HEAD THEN <<>>
    ELSE <<[sequence      |-> (data[2] \div 16) % 16,
            strength_mode |-> StrengthMode_decode(data[2] % 16),
            strength_a    |-> data[3],
            strength_b    |-> data[4],
            waveform_a    |-> WaveformData_decode(SubSeq(data, 5, 12))[1],
            waveform_b    |-> WaveformData_decode(SubSeq(data, 13, 20))[1]]>>

BFCommand_encode(cmd) ==
    <<BF_HEAD, cmd.soft_limit_a, cmd.soft_limit_b, cmd.freq_balance_a,
      cmd.freq_balance_b, cmd.intensity_balance_a, cmd.intensity_balance_b>>

BFCommand_decode(data) ==
    IF Len(data) < BF_LENGTH THEN <<>>
    ELSE IF data[1] # BF_HEAD THEN <<>>
    ELSE <<[soft_limit_a        |-> data[2],
            soft_limit_b        |-> data[3],
            freq_balance_a      |-> data[4],
            freq_balance_b      |-> data[5],
            intensity_balance_a |-> data[6],
            intensity_balance_b |-> data[7]]>>

B1Response_decode(data) ==
    IF Len(data) < B1_LENGTH THEN <<>>
    ELSE IF data[1] # B1_HEAD THEN <<>>
    ELSE <<[sequence |-> data[2], strength_a |-> data[3], strength_b |-> data[4]]>>

B1Response_encode(resp) ==
    <<B1_HEAD, resp.sequence, resp.strength_a, resp.strength_b>>

\* A codec call: shape is the type called ("B0", "BF", "B1", or "freq" for
\* the frequency compression), stage how far it went: "in" (x is the value
\* to encode), "enc" (buf is encode(x)), "dec" (out is decode(buf)), "raw"
\* (buf is a received buffer), "rawdec" (out is decode(buf)).
NoCodec == [shape |-> "none", stage |-> "none", x |-> <<>>, buf |-> <<>>, out |-> <<>>]

Encode(shape, x) ==
    CASE shape = "B0" -> B0Command_encode(x)
      [] shape = "BF" -> BFCommand_encode(x)
      [] shape = "B1" -> B1Response_encode(x)

Decode(shape, data) ==
    CASE shape = "B0" -> B0Command_decode(data)
      [] shape = "BF" -> BFCommand_decode(data)
      [] shape = "B1" -> B1Response_decode(data)

----------------------------------------------------------------------------
(* V3OutputState *)

V3OutputState_new ==
    [target_strength_a  |-> 0,
     target_strength_b  |-> 0,
     pending_strength_a |-> FALSE,
     pending_strength_b |-> FALSE,
     sequence           |-> 0,
     waveform_a         |-> WaveformSilent,
     waveform_b         |-> WaveformSilent]

\* Variant of next_sequence that forgets to skip 0.
next_sequence_no_skip(s) ==
    [state |-> [s EXCEPT !.sequence = (s.sequence + 1) % U8],
     value |-> s.sequence % SeqModulus]

\* fetch_add(1) on the AtomicU8 wraps modulo 2^8; the value handed out is
\* computed from the counter before the increment.
next_sequence(s) ==
    [state |-> [s EXCEPT !.sequence = (s.sequence + 1) % U8],
     value |-> (s.sequence % SeqModulus) + 1]

\* Variant of build_b0 that loads the pending flags instead of swapping them out.
build_b0_load(s) ==
    LET need_a == s.pending_strength_a
        need_b == s.pending_strength_b
        mode_a == IF need_a THEN "Absolute" ELSE "NoChange"
        mode_b == IF need_b THEN "Absolute" ELSE "NoChange"
        alloc  == IF need_a \/ need_b
                  THEN next_sequence(s)
                  ELSE [state |-> s, value |-> 0]
    IN  [state |-> alloc.state,
         need  |-> [a |-> need_a, b |-> need_b],
         cmd   |-> [sequence      |-> alloc.value,
                    strength_mode |-> [channel_a |-> mode_a, channel_b |-> mode_b],
                    strength_a    |-> alloc.state.target_strength_a,
                    strength_b    |-> alloc.state.target_strength_b,
                    waveform_a    |-> alloc.state.waveform_a,
                    waveform_b    |-> alloc.state.waveform_b]]

build_b0(s) ==
    LET need_a == s.pending_strength_a
        need_b == s.pending_strength_b
        s1     == [s EXCEPT !.pending_strength_a = FALSE,
                            !.pending_strength_b = FALSE]
        mode_a == IF need_a THEN "Absolute" ELSE "NoChange"
        mode_b == IF need_b THEN "Absolute" ELSE "NoChange"
        alloc  == IF need_a \/ need_b
                  THEN next_sequence(s1)
                  ELSE [state |-> s1, value |-> 0]
    IN  [state |-> alloc.state,
         need  |-> [a |-> need_a, b |-> need_b],
         cmd   |-> [sequence      |-> alloc.value,
                    strength_mode |-> [channel_a |-> mode_a, channel_b |-> mode_b],
                    strength_a    |-> alloc.state.target_strength_a,
                    strength_b    |-> alloc.state.target_strength_b,
                    waveform_a    |-> alloc.state.waveform_a,
                    waveform_b    |-> alloc.state.waveform_b]]

----------------------------------------------------------------------------
(* BaseDevice *)

BaseDevice_new ==
    [state       |-> "Disconnected",
     power_a     |-> 0,
     power_b     |-> 0,
     max_power_a |-> BaseMaxPower,
     max_power_b |-> BaseMaxPower]

set_state(base, state) ==
    IF base.state # state THEN [base EXCEPT !.state = state] ELSE base

BaseSetPower(base, channel, power) ==
    IF channel \notin {0, 1}
    THEN [base |-> base, res |-> "InvalidParameter"]
    ELSE LET max_power == IF channel = 0 THEN base.max_power_a ELSE base.max_power_b
         IN  IF power > max_power
             THEN [base |-> base, res |-> "PowerOutOfRange"]
             ELSE [base |-> IF channel = 0
                            THEN [base EXCEPT !.power_a = power]
                            ELSE [base EXCEPT !.power_b = power],
                   res  |-> "Ok"]

----------------------------------------------------------------------------
(* CoyoteDevice.  A task handle is None, "Alive" or "Finished" (the task   *)
(* returned by itself).  output_detached counts the output loops spawned   *)
(* for this device that are still alive while no handle refers to them any *)
(* more: dropping a JoinHandle does not abort its task.  The other tasks   *)
(* are followed through their handle only.                                 *)

Channels == {0, 1}

CoyoteDevice_new(manager) ==
    [base              |-> BaseDevice_new,
     ble_manager       |-> manager,
     protocol_device   |-> FALSE,
     output_state      |-> V3OutputState_new,
     output_task       |-> None,
     receive_task      |-> None,
     output_detached   |-> 0]

start_output_loop(d) ==
    IF d.protocol_device
    THEN [d EXCEPT !.output_task = "Alive",
                   !.output_detached = @ + (IF d.output_task = "Alive" THEN 1 ELSE 0)]
    ELSE d

stop_output_loop(d) == [d EXCEPT !.output_task = None]

start_receive_task(d) ==
    IF d.protocol_device
    THEN [d EXCEPT !.receive_task = "Alive"]
    ELSE d

stop_receive_task(d) == [d EXCEPT !.receive_task = None]

\* connOk: outcome of BleManager::connect; bfOk: outcome of the BF write.
CoyConnect(d, connOk, bfOk) ==
    IF d.base.state = "Connected"
    THEN [dev |-> d, res |-> "Ok"]
    ELSE LET d1 == [d EXCEPT !.base = set_state(d.base, "Connecting")]
         IN  IF ~d1.protocol_device /\ ~d1.ble_manager
             THEN [dev |-> d1, res |-> "DeviceNotConnected"]
             ELSE IF ~d1.protocol_device /\ ~connOk
             THEN [dev |-> d1, res |-> "Transport"]
             ELSE LET d2 == [d1 EXCEPT !.protocol_device = TRUE]
                  IN  IF ~bfOk
                      THEN [dev |-> d2, res |-> "Transport"]
                      ELSE [dev |-> start_receive_task(
                                      [d2 EXCEPT !.base = set_state(d2.base, "Connected")]),
                            res |-> "Ok"]

\* discOk: outcome of the transport's disconnect.
CoyDisconnect(d, discOk) ==
    LET d1 == stop_receive_task(stop_output_loop(d))
    IN  IF d1.protocol_device /\ ~discOk
        THEN [dev |-> d1, res |-> "Transport"]
        ELSE [dev |-> [d1 EXCEPT !.protocol_device = FALSE,
                                 !.base = set_state(d1.base, "Disconnected")],
              res |-> "Ok"]

\* Variant of start that also accepts a device that is already Running.
CoyStart_accepts_running(d) ==
    IF d.base.state \notin {"Connected", "Running"}
    THEN [dev |-> d, res |-> "DeviceNotConnected"]
    ELSE LET d1 == start_output_loop(d)
         IN  [dev |-> [d1 EXCEPT !.base = set_state(d1.base, "Running")],
              res |-> "Ok"]

CoyStart(d) ==
    IF d.base.state # "Connected"
    THEN [dev |-> d, res |-> "DeviceNotConnected"]
    ELSE LET d1 == start_output_loop(d)
         IN  [dev |-> [d1 EXCEPT !.base = set_state(d1.base, "Running")],
              res |-> "Ok"]

\* Variant of stop that forgets to reset channel B.
CoyStop_keeps_b(d) ==
    IF d.base.state # "Running"
    THEN [dev |-> d, res |-> "Ok"]
    ELSE LET d1 == stop_output_loop(d)
         IN  [dev |-> [d1 EXCEPT !.output_state.target_strength_a = 0,
                                 !.output_state.waveform_a = WaveformSilent,
                                 !.output_state.waveform_b = WaveformSilent,
                                 !.base = set_state(d1.base, "Connected")],
              res |-> "Ok"]

\* Variant of stop that leaves the waveforms as they are.
CoyStop_keeps_waveforms(d) ==
    IF d.base.state # "Running"
    THEN [dev |-> d, res |-> "Ok"]
    ELSE LET d1 == stop_output_loop(d)
         IN  [dev |-> [d1 EXCEPT !.output_state.target_strength_a = 0,
                                 !.output_state.target_strength_b = 0,
                                 !.base = set_state(d1.base, "Connected")],
              res |-> "Ok"]

CoyStop(d) ==
    IF d.base.state # "Running"
    THEN [dev |-> d, res |-> "Ok"]
    ELSE LET d1 == stop_output_loop(d)
         IN  [dev |-> [d1 EXCEPT !.output_state.target_strength_a = 0,
                                 !.output_state.target_strength_b = 0,
                                 !.output_state.waveform_a = WaveformSilent,
                                 !.output_state.waveform_b = WaveformSilent,
                                 !.base = set_state(d1.base, "Connected")],
              res |-> "Ok"]

\* Variant of set_power whose range check rejects the maximum itself.
CoySetPower_strict(d, channel, power) ==
    IF power >= MAX_STRENGTH
    THEN [dev |-> d, res |-> "PowerOutOfRange"]
    ELSE IF channel \notin {0, 1}
    THEN [dev |-> d, res |-> "InvalidParameter"]
    ELSE LET d1 == IF channel = 0
                   THEN [d EXCEPT !.output_state.target_strength_a = power,
                                  !.output_state.pending_strength_a = TRUE]
                   ELSE [d EXCEPT !.output_state.target_strength_b = power,
                                  !.output_state.pending_strength_b = TRUE]
             b  == BaseSetPower(d1.base, channel,
                                Min(power, Max(d1.base.power_a, power)))
         IN  [dev |-> [d1 EXCEPT !.base = b.base], res |-> "Ok"]

\* Variant of set_power without the range check.
CoySetPower_unchecked(d, channel, power) ==
    IF channel \notin {0, 1}
    THEN [dev |-> d, res |-> "InvalidParameter"]
    ELSE LET d1 == IF channel = 0
                   THEN [d EXCEPT !.output_state.target_strength_a = power,
                                  !.output_state.pending_strength_a = TRUE]
                   ELSE [d EXCEPT !.output_state.target_strength_b = power,
                                  !.output_state.pending_strength_b = TRUE]
             b  == BaseSetPower(d1.base, channel,
                                Min(power, Max(d1.base.power_a, power)))
         IN  [dev |-> [d1 EXCEPT !.base = b.base], res |-> "Ok"]

CoySetPower(d, channel, power) ==
    IF power > MAX_STRENGTH
    THEN [dev |-> d, res |-> "PowerOutOfRange"]
    ELSE IF channel \notin {0, 1}
    THEN [dev |-> d, res |-> "InvalidParameter"]
    ELSE LET d1 == IF channel = 0
                   THEN [d EXCEPT !.output_state.target_strength_a = power,
                                  !.output_state.pending_strength_a = TRUE]
                   ELSE [d EXCEPT !.output_state.target_strength_b = power,
                                  !.output_state.pending_strength_b = TRUE]
             \* the BaseDevice copy is updated best-effort, its error is dropped
             b  == BaseSetPower(d1.base, channel,
                                Min(power, Max(d1.base.power_a, power)))
         IN  [dev |-> [d1 EXCEPT !.base = b.base], res |-> "Ok"]

CoyGetPower(d, channel) ==
    IF channel = 0 THEN d.output_state.target_strength_a
    ELSE IF channel = 1 THEN d.output_state.target_strength_b
    ELSE 0

\* Variant of set_power that sets the pending flag before it stores the
\* target.
set_power_op_flag_first(d, channel, power, i) ==
    IF i = 1
    THEN IF channel = 0
         THEN [d EXCEPT !.output_state.pending_strength_a = TRUE]
         ELSE [d EXCEPT !.output_state.pending_strength_b = TRUE]
    ELSE LET d1 == IF channel = 0
                   THEN [d EXCEPT !.output_state.target_strength_a = power]
                   ELSE [d EXCEPT !.output_state.target_strength_b = power]
         IN  [d1 EXCEPT !.base = BaseSetPower(d1.base, channel,
                                              Min(power, Max(d1.base.power_a, power))).base]

\* The two atomic stores of an accepted set_power, one at a time: i = 1 the
\* store of the target, i = 2 the store of the pending flag, followed by
\* the best-effort update of the BaseDevice copy.
set_power_op(d, channel, power, i) ==
    IF i = 1
    THEN IF channel = 0
         THEN [d EXCEPT !.output_state.target_strength_a = power]
         ELSE [d EXCEPT !.output_state.target_strength_b = power]
    ELSE LET d1 == IF channel = 0
                   THEN [d EXCEPT !.output_state.pending_strength_a = TRUE]
                   ELSE [d EXCEPT !.output_state.pending_strength_b = TRUE]
         IN  [d1 EXCEPT !.base = BaseSetPower(d1.base, channel,
                                              Min(power, Max(d1.base.power_a, power))).base]

\* sp: the accepted set_power in progress, its target stored and its flag
\* not yet, as <<channel, power>>; writes: the set_power calls still to be
\* made; pc: the operation of build_b0 the output loop performs next;
\* need_a, need_b, seq, sa: the locals of the build in progress; abs: the
\* strength of the last transmitted command with mode Absolute, by channel.
NoAtom ==
    [sp |-> <<>>, writes |-> 0, pc |-> "swap_a", need_a |-> FALSE, need_b |-> FALSE,
     seq |-> 0, sa |-> 0, abs |-> [c \in {0, 1} |-> <<>>]]

\* WaveformConfig of type Continuous: uniform(compress_frequency(f), min(i, 100))
waveform_config_to_v3(config) ==
    WaveformUniform(compress_frequency(config.frequency), Min(config.intensity, 100))

CoySetWaveform(d, channel, config) ==
    IF channel = 0
    THEN [dev |-> [d EXCEPT !.output_state.waveform_a = waveform_config_to_v3(config)],
          res |-> "Ok"]
    ELSE IF channel = 1
    THEN [dev |-> [d EXCEPT !.output_state.waveform_b = waveform_config_to_v3(config)],
          res |-> "Ok"]
    ELSE [dev |-> d, res |-> "InvalidParameter"]

----------------------------------------------------------------------------
(* Bookkeeping of set_power calls between two builds of a B0 command *)

NoCalls == [c \in Channels |-> "none"]

NoteCall(cs, channel, res) ==
    IF res = "Ok" /\ channel \in Channels
    THEN [cs EXCEPT ![channel] = IF @ = "none" THEN "one" ELSE "many"]
    ELSE cs

NoteVal(lv, channel, power, res) ==
    IF res = "Ok" /\ channel \in Channels
    THEN [lv EXCEPT ![channel] = power]
    ELSE lv

NoB0 ==
    [sequence      |-> 0,
     strength_mode |-> [channel_a |-> "NoChange", channel_b |-> "NoChange"],
     strength_a    |-> 0,
     strength_b    |-> 0,
     waveform_a    |-> WaveformSilent,
     waveform_b    |-> WaveformSilent,
     built         |-> FALSE,
     need          |-> [a |-> FALSE, b |-> FALSE],
     coalesced     |-> NoCalls]

\* The command of one build_b0, with what the build consumed: the two flags
\* it swapped out and the calls that had completed since the previous build.
Built(b, cs) ==
    [sequence      |-> b.cmd.sequence,
     strength_mode |-> b.cmd.strength_mode,
     strength_a    |-> b.cmd.strength_a,
     strength_b    |-> b.cmd.strength_b,
     waveform_a    |-> b.cmd.waveform_a,
     waveform_b    |-> b.cmd.waveform_b,
     built         |-> TRUE,
     need          |-> b.need,
     coalesced     |-> cs]

ModeOf(cmd, c) ==
    IF c = 0 THEN cmd.strength_mode.channel_a ELSE cmd.strength_mode.channel_b

StrengthOf(cmd, c) == IF c = 0 THEN cmd.strength_a ELSE cmd.strength_b

PendingOf(d, c) ==
    IF c = 0 THEN d.output_state.pending_strength_a
    ELSE d.output_state.pending_strength_b

----------------------------------------------------------------------------
(* Relay protocol (dglab_protocol::wifi).  A text frame is a WsMessage     *)
(* record; json is FALSE when the text is not a JSON WsMessage.  An absent *)
(* Option of a record is the empty tuple, a present one the one-element    *)
(* tuple.  A payload is a                                                  *)
(* record of its head (the text up to and including the first '-') and the *)
(* '+'-separated fields after it; a field is its decimal value, or -1 when *)
(* it does not parse as a u8.  "strength-11+7+100+35" is                   *)
(* [head |-> "strength-", parts |-> <<11, 7, 100, 35>>].                   *)

Payload(head, parts) == [head |-> head, parts |-> parts]

Text(t) == Payload(t, <<>>)

OFFICIAL_SERVER == "wss://ws.dungeon-lab.cn"

ToLower(t) ==
    CASE t = "BIND"  -> "bind"
      [] t = "Break" -> "break"
      [] OTHER       -> t

MessageType(t) ==
    IF ToLower(t) \in {"heartbeat", "bind", "msg", "break", "error"}
    THEN ToLower(t)
    ELSE "unknown"

\* A payload that repeats its prefix.
Twice(prefix) ==
    CASE prefix = "strength-" -> "strength-strength-"
      [] prefix = "feedback-" -> "feedback-feedback-"
      [] prefix = "clear-"    -> "clear-clear-"
      [] prefix = "pulse-"    -> "pulse-pulse-"
      [] OTHER                -> prefix

starts_with(message, prefix) == message.head \in {prefix, Twice(prefix)}

\* str::trim_start_matches removes every leading copy of the prefix; what
\* is left is the fields.
trim_start_matches(message, prefix) ==
    IF starts_with(message, prefix) THEN message.parts ELSE <<message.head>>

StrengthData_parse(message) ==
    IF ~starts_with(message, "strength-") THEN <<>>
    ELSE IF Len(trim_start_matches(message, "strength-")) # 4 THEN <<>>
    ELSE IF \E i \in 1..4 : message.parts[i] \notin 0..255 THEN <<>>
    ELSE <<[strength_a |-> message.parts[1], strength_b |-> message.parts[2],
            max_a |-> message.parts[3], max_b |-> message.parts[4]]>>

FeedbackButton_parse(message) ==
    IF ~starts_with(message, "feedback-") THEN <<>>
    ELSE IF Len(message.parts) # 1 THEN <<>>
    ELSE IF message.parts[1] \notin 0..9 THEN <<>>
    ELSE <<message.parts[1]>>

ErrorCode_parse(message) ==
    IF message.parts = <<>> /\ message.head \in {"200", "209", "400", "500"}
    THEN message.head
    ELSE "Unknown"

\* Variant of from_message that reads the peer id from the wrong field.
from_message_wrong_field(msg) ==
    LET t == MessageType(msg.type)
    IN  CASE t = "heartbeat" -> [ev |-> "Heartbeat"]
          [] t = "bind" ->
                IF msg.message = Text("200")
                THEN [ev |-> "Bound", id |-> msg.clientId]
                ELSE IF msg.message = Text("targetId")
                THEN [ev |-> "ClientId", id |-> msg.clientId]
                ELSE [ev |-> "Other", msg |-> msg]
          [] t = "msg" ->
                IF StrengthData_parse(msg.message) # <<>>
                THEN [ev |-> "Strength", data |-> StrengthData_parse(msg.message)[1]]
                ELSE IF FeedbackButton_parse(msg.message) # <<>>
                THEN [ev |-> "Feedback", button |-> FeedbackButton_parse(msg.message)[1]]
                ELSE [ev |-> "Other", msg |-> msg]
          [] t = "break" -> [ev |-> "PeerDisconnected"]
          [] t = "error" -> [ev |-> "Error", code |-> ErrorCode_parse(msg.message)]
          [] OTHER -> [ev |-> "Other", msg |-> msg]

from_message(msg) ==
    LET t == MessageType(msg.type)
    IN  CASE t = "heartbeat" -> [ev |-> "Heartbeat"]
          [] t = "bind" ->
                IF msg.message = Text("200")
                THEN [ev |-> "Bound", id |-> msg.targetId]
                ELSE IF msg.message = Text("targetId")
                THEN [ev |-> "ClientId", id |-> msg.clientId]
                ELSE [ev |-> "Other", msg |-> msg]
          [] t = "msg" ->
                IF StrengthData_parse(msg.message) # <<>>
                THEN [ev |-> "Strength", data |-> StrengthData_parse(msg.message)[1]]
                ELSE IF FeedbackButton_parse(msg.message) # <<>>
                THEN [ev |-> "Feedback", button |-> FeedbackButton_parse(msg.message)[1]]
                ELSE [ev |-> "Other", msg |-> msg]
          [] t = "break" -> [ev |-> "PeerDisconnected"]
          [] t = "error" -> [ev |-> "Error", code |-> ErrorCode_parse(msg.message)]
          [] OTHER -> [ev |-> "Other", msg |-> msg]

\* ClientState right after WsClient::connect; receiving: the receive task
\* spawned by connect is still reading the socket.
ClientState_connected ==
    [client_id |-> None, target_id |-> None, connected |-> TRUE, receiving |-> TRUE]

\* One iteration of the receive task on a text frame.
HandleText(c, frame) ==
    IF ~frame.json
    THEN [client |-> c, event |-> [ev |-> "None"]]
    ELSE LET event == from_message(frame)
         IN  [client |-> CASE event.ev = "ClientId" -> [c EXCEPT !.client_id = event.id]
                           [] event.ev = "Bound"    -> [c EXCEPT !.target_id = event.id]
                           [] OTHER                 -> c,
              event  |-> event]

\* The receive task leaves its loop on a Close frame or a socket error.
HandleClose(c) == [c EXCEPT !.connected = FALSE, !.receiving = FALSE]

client_id(c) == c.client_id

target_id(c) == c.target_id

is_bound(c) == c.target_id # None

generate_url(server_url, id) ==
    <<"https://www.dungeon-lab.com/app-download.php#DGLAB-SOCKET#", server_url, "/", id>>

qr_url(c, server_url) ==
    IF c.client_id = None THEN <<>> ELSE generate_url(server_url, c.client_id)

official_qr_url(c) ==
    IF c.client_id = None THEN <<>> ELSE generate_url(OFFICIAL_SERVER, c.client_id)

Contains(url, id) == \E i \in 1..Len(url) : url[i] = id

IsClientIdFrame(frame) ==
    /\ frame.json
    /\ ToLower(frame.type) = "bind"
    /\ frame.message = Text("targetId")

IsBindSuccess(frame) ==
    /\ frame.json
    /\ ToLower(frame.type) = "bind"
    /\ frame.message = Text("200")

----------------------------------------------------------------------------
(* WsCoyoteDevice and BleWsBridgeDevice *)

WsCoyoteDevice_new ==
    [base               |-> BaseDevice_new,
     heartbeat_task     |-> None,
     receive_task       |-> None]

BleWsBridgeDevice_new ==
    [base            |-> BaseDevice_new,
     ws_receive_task |-> None,
     sync_task       |-> None]

\* Everything a call through the Device trait can touch.
World ==
    [coy |-> coy, ws |-> ws, bridge |-> bridge, ws_client |-> ws_client]

CoyLift(w, r) == [w |-> [w EXCEPT !.coy = r.dev], res |-> r.res]

(* WsCoyoteDevice *)

ws_start_tasks(d) ==
    [d EXCEPT !.receive_task = "Alive", !.heartbeat_task = "Alive"]

ws_stop_tasks(d) == [d EXCEPT !.receive_task = None, !.heartbeat_task = None]

\* sendOk: outcome of handing the frame to the client's send channel.
send_strength_operation(w, sendOk) ==
    IF w.ws_client = <<>> THEN "DeviceNotConnected"
    ELSE IF w.ws_client[1].client_id = None THEN "Other"
    ELSE IF w.ws_client[1].target_id = None THEN "Other"
    ELSE IF ~sendOk THEN "Other"
    ELSE "Ok"

WsConnect(w, connOk) ==
    IF w.ws.base.state = "Connected"
    THEN [w |-> w, res |-> "Ok"]
    ELSE LET w1 == [w EXCEPT !.ws.base = set_state(w.ws.base, "Connecting")]
         IN  IF ~connOk
             THEN [w |-> w1, res |-> "Other"]
             ELSE LET w2 == [w1 EXCEPT !.ws_client = <<ClientState_connected>>,
                                       !.ws.base = set_state(w1.ws.base, "Connected")]
                  IN  [w |-> [w2 EXCEPT !.ws = ws_start_tasks(w2.ws)], res |-> "Ok"]

WsDisconnect(w) ==
    LET d1 == ws_stop_tasks(w.ws)
    IN  [w   |-> [w EXCEPT !.ws = [d1 EXCEPT !.base = set_state(d1.base, "Disconnected")],
                           !.ws_client = <<>>],
         res |-> "Ok"]

WsStart(w) ==
    IF w.ws.base.state # "Connected"
    THEN [w |-> w, res |-> "DeviceNotConnected"]
    ELSE [w |-> [w EXCEPT !.ws.base = set_state(w.ws.base, "Running")], res |-> "Ok"]

WsSetPower(w, channel, power, sendOk) ==
    LET b == BaseSetPower(w.ws.base, channel, power)
    IN  IF b.res # "Ok"
        THEN [w |-> w, res |-> b.res]
        ELSE LET w1 == [w EXCEPT !.ws.base = b.base]
             IN  IF w1.ws.base.state \in {"Connected", "Running"}
                 THEN [w |-> w1, res |-> send_strength_operation(w1, sendOk)]
                 ELSE [w |-> w1, res |-> "Ok"]

WsStop(w, sendOkA, sendOkB) ==
    IF w.ws.base.state # "Running"
    THEN [w |-> w, res |-> "Ok"]
    ELSE LET r1 == WsSetPower(w, 0, 0, sendOkA)
         IN  IF r1.res # "Ok" THEN r1
             ELSE LET r2 == WsSetPower(r1.w, 1, 0, sendOkB)
                  IN  IF r2.res # "Ok" THEN r2
                      ELSE [w   |-> [r2.w EXCEPT !.ws.base = set_state(r2.w.ws.base, "Connected")],
                            res |-> "Ok"]

\* sendOk: outcome of handing the pulse frame to the send channel.
WsSetWaveform(w, channel, sendOk) ==
    IF channel \notin {0, 1}
    THEN [w |-> w, res |-> "InvalidParameter"]
    ELSE IF w.ws_client = <<>>
    THEN [w |-> w, res |-> "Ok"]
    ELSE IF w.ws_client[1].client_id = None \/ w.ws_client[1].target_id = None \/ ~sendOk
    THEN [w |-> w, res |-> "Other"]
    ELSE [w |-> w, res |-> "Ok"]

WsGetPower(w, channel) ==
    IF channel = 0 THEN w.ws.base.power_a
    ELSE IF channel = 1 THEN w.ws.base.power_b
    ELSE 0

(* BleWsBridgeDevice *)

bridge_start_tasks(d) ==
    [d EXCEPT !.ws_receive_task = "Alive", !.sync_task = "Alive"]

bridge_stop_tasks(d) == [d EXCEPT !.ws_receive_task = None, !.sync_task = None]

\* connOk: outcome of WsClient::connect; bind: outcome of wait_for_bind;
\* cid, pid: the ids the relay session holds when the wait returns.
BridgeConnect(w, connOk, bind, cid, pid) ==
    IF w.bridge.base.state = "Connected"
    THEN [w |-> w, res |-> "Ok"]
    ELSE LET w1 == [w EXCEPT !.bridge.base = set_state(w.bridge.base, "Connecting")]
         IN  IF ~connOk \/ bind # "bound"
             THEN [w |-> w1, res |-> "Other"]
             ELSE LET w2 == [w1 EXCEPT !.ws_client =
                                <<[ClientState_connected EXCEPT !.client_id = cid,
                                                                !.target_id = pid]>>]
                      d3 == bridge_start_tasks(w2.bridge)
                  IN  [w   |-> [w2 EXCEPT !.bridge =
                                  [d3 EXCEPT !.base = set_state(d3.base, "Connected")]],
                       res |-> "Ok"]

\* connect_ble: set_protocol_device, then connect, on the local device.
BridgeConnectBle(w, bfOk) ==
    CoyLift(w, CoyConnect([w.coy EXCEPT !.protocol_device = TRUE], TRUE, bfOk))

BridgeDisconnect(w, discOk) ==
    IF w.bridge.base.state = "Disconnected"
    THEN [w |-> w, res |-> "Ok"]
    ELSE LET d1 == bridge_stop_tasks(w.bridge)
             r  == CoyDisconnect(w.coy, discOk)
         IN  [w   |-> [w EXCEPT !.bridge = [d1 EXCEPT !.base = set_state(d1.base, "Disconnected")],
                                !.coy = r.dev,
                                !.ws_client = <<>>],
              res |-> "Ok"]

BridgeStart(w) ==
    IF w.bridge.base.state # "Connected"
    THEN [w |-> w, res |-> "DeviceNotConnected"]
    ELSE LET r == CoyLift(w, CoyStart(w.coy))
         IN  IF r.res # "Ok" THEN r
             ELSE [w   |-> [r.w EXCEPT !.bridge.base = set_state(r.w.bridge.base, "Running")],
                   res |-> "Ok"]

BridgeStop(w) ==
    IF w.bridge.base.state = "Disconnected"
    THEN [w |-> w, res |-> "Ok"]
    ELSE LET r == CoyLift(w, CoyStop(w.coy))
         IN  IF r.res # "Ok" THEN r
             ELSE [w   |-> [r.w EXCEPT !.bridge.base = set_state(r.w.bridge.base, "Connected")],
                   res |-> "Ok"]

BridgeSetPower(w, channel, power) ==
    LET r == CoyLift(w, CoySetPower(w.coy, channel, power))
    IN  IF r.res # "Ok" THEN r
        ELSE LET b == BaseSetPower(r.w.bridge.base, channel, power)
             IN  IF b.res # "Ok"
                 THEN [w |-> r.w, res |-> b.res]
                 ELSE [w |-> [r.w EXCEPT !.bridge.base = b.base], res |-> "Ok"]

BridgeGetPower(w, channel) ==
    IF channel = 0 THEN w.bridge.base.power_a
    ELSE IF channel = 1 THEN w.bridge.base.power_b
    ELSE 0

(* Dispatch through the Device trait object; io[i] is the outcome of the   *)
(* i-th transport operation the call attempts.                             *)

DevState(w, k) ==
    CASE k = "Coyote" -> w.coy.base.state
      [] k = "Ws"     -> w.ws.base.state
      [] OTHER        -> w.bridge.base.state

DevConnect(w, k, io, bind, cid, pid) ==
    CASE k = "Coyote" -> CoyLift(w, CoyConnect(w.coy, io[1], io[2]))
      [] k = "Ws"     -> WsConnect(w, io[1])
      [] OTHER        -> BridgeConnect(w, io[1], bind, cid, pid)

DevDisconnect(w, k, io) ==
    CASE k = "Coyote" -> CoyLift(w, CoyDisconnect(w.coy, io[1]))
      [] k = "Ws"     -> WsDisconnect(w)
      [] OTHER        -> BridgeDisconnect(w, io[1])

DevStart(w, k) ==
    CASE k = "Coyote" -> CoyLift(w, CoyStart(w.coy))
      [] k = "Ws"     -> WsStart(w)
      [] OTHER        -> BridgeStart(w)

DevStop(w, k, io) ==
    CASE k = "Coyote" -> CoyLift(w, CoyStop(w.coy))
      [] k = "Ws"     -> WsStop(w, io[1], io[2])
      [] OTHER        -> BridgeStop(w)

DevSetPower(w, k, channel, power, io) ==
    CASE k = "Coyote" -> CoyLift(w, CoySetPower(w.coy, channel, power))
      [] k = "Ws"     -> WsSetPower(w, channel, power, io[1])
      [] OTHER        -> BridgeSetPower(w, channel, power)

DevGetPower(w, k, channel) ==
    CASE k = "Coyote" -> CoyGetPower(w.coy, channel)
      [] k = "Ws"     -> WsGetPower(w, channel)
      [] OTHER        -> BridgeGetPower(w, channel)

DevSetWaveform(w, k, channel, config, io) ==
    CASE k = "Ws" -> WsSetWaveform(w, channel, io[1])
      [] OTHER    -> CoyLift(w, CoySetWaveform(w.coy, channel, config))

\* commands::power::emergency_stop: both set_power results are only logged,
\* the result of stop is returned.
emergency_stop(w, k, io) ==
    LET r1 == DevSetPower(w, k, 0, 0, <<io[1]>>)
        r2 == DevSetPower(r1.w, k, 1, 0, <<io[2]>>)
    IN  DevStop(r2.w, k, <<io[3], io[4]>>)

----------------------------------------------------------------------------
(* BleWsBridgeDevice::connect step by step.  While connect waits for the   *)
(* binding, the WsClient is a local of connect: waiter.client is its       *)
(* ClientState and waiter.rx the events its receive task has queued for    *)
(* recv_event.  elapsed counts 500ms units since wait_for_bind started.    *)
(* result / cause are what wait_for_bind returned and why; firstKind      *)
(* keeps, per returned value, the kind of cause that first produced it.    *)

WaitResults == {"OkTrue", "OkFalse", "Err"}

\* Capacity of the event channel between the receive task and recv_event.
EventChannelCapacity == 32

\* task: the client's receive task is reading the socket ("read"), is
\* inside event_tx.send with the channel full, still holding the state
\* lock it took to update the ids ("send", pending: its event), or has
\* left its loop ("done").
NoWaiter ==
    [pc |-> "idle", client |-> <<>>, rx |-> <<>>, elapsed |-> 0,
     result |-> "none", cause |-> "none",
     firstKind |-> [r \in WaitResults |-> "none"],
     task |-> "done", pending |-> "none"]

\* The outcome kinds a caller of wait_for_bind may want to tell apart.
CauseKind(cause) ==
    CASE cause \in {"already_bound", "bound_event"}  -> "success"
      [] cause = "error_event"                       -> "relay_error"
      [] cause = "bind_timeout_event"                -> "relay_bind_timeout"
      [] cause \in {"closed_event", "channel_closed"} -> "closed"
      [] OTHER                                       -> "caller_timeout"

Return(w, result, cause) ==
    [w EXCEPT !.pc = "returned", !.result = result, !.cause = cause,
              !.firstKind[result] = IF @ = "none" THEN CauseKind(cause) ELSE @]

\* The state lock of the client is held by the receive task.
StateLocked(w) == w.task = "send"

\* Top of the loop of wait_for_bind: is_bound (takes the state lock), then
\* the deadline.
wait_for_bind_check(w, timeout) ==
    IF is_bound(w.client[1]) THEN Return(w, "OkTrue", "already_bound")
    ELSE IF w.elapsed > timeout THEN Return(w, "OkFalse", "deadline")
    ELSE [w EXCEPT !.pc = "recv"]

\* timeout(500ms, recv_event()) and the match on its result.  With an empty
\* channel and a live sender the 500ms expire.
wait_for_bind_recv(w, timeout) ==
    IF w.rx # <<>>
    THEN LET event == Head(w.rx)
             w1    == [w EXCEPT !.rx = Tail(w.rx)]
         IN  CASE event = "Bound"       -> Return(w1, "OkTrue", "bound_event")
               [] event = "Error"       -> Return(w1, "OkFalse", "error_event")
               [] event = "BindTimeout" -> Return(w1, "OkFalse", "bind_timeout_event")
               [] event = "Closed"      -> Return(w1, "OkFalse", "closed_event")
               [] OTHER                 -> [w1 EXCEPT !.pc = "check"]
    ELSE IF w.task = "done"
    THEN Return(w, "OkFalse", "channel_closed")
    ELSE [w EXCEPT !.pc = "check", !.elapsed = Min(w.elapsed + 1, timeout + 1)]

\* The receive task on a text frame: parse, update the ids under the state
\* lock, send the event; the send waits while the channel is full.
receive_frame(w, frame) ==
    LET h == HandleText(w.client[1], frame)
    IN  IF ~frame.json THEN w
        ELSE IF Len(w.rx) < EventChannelCapacity
        THEN [w EXCEPT !.client = <<h.client>>, !.rx = Append(@, h.event.ev)]
        ELSE [w EXCEPT !.client = <<h.client>>, !.task = "send",
                       !.pending = h.event.ev]

\* The blocked send goes through once the channel has room.
receive_send(w) ==
    [w EXCEPT !.rx = Append(@, w.pending), !.task = "read", !.pending = "none"]

\* BleWsBridgeDevice::qr_url reads the client stored in inner.ws_client.
BridgeQrUrl(w) ==
    IF w.ws_client = <<>> THEN <<>> ELSE official_qr_url(w.ws_client[1])

\* connect after wait_for_bind has returned.
BridgeConnectEnd(w, wt) ==
    IF wt.result # "OkTrue"
    THEN [w |-> w, res |-> "Other"]
    ELSE LET w2 == [w EXCEPT !.ws_client = wt.client]
             d3 == bridge_start_tasks(w2.bridge)
         IN  [w   |-> [w2 EXCEPT !.bridge =
                         [d3 EXCEPT !.base = set_state(d3.base, "Connected")]],
              res |-> "Ok"]

----------------------------------------------------------------------------
(* The bridge's forwarding: relay -> local device, local device -> relay *)

saturating_sub(a, b) == IF a - b < 0 THEN 0 ELSE a - b

saturating_add(a, b) == IF a + b > U8 - 1 THEN U8 - 1 ELSE a + b

\* A 16-character hex text is the tuple of its 16 digit values (-1: not a
\* hex digit).
from_hex_string(hex) ==
    IF Len(hex) # 16 THEN <<>>
    ELSE IF \E i \in 1..16 : hex[i] \notin 0..15 THEN <<>>
    ELSE LET byte(i) == 16 * hex[2 * i - 1] + hex[2 * i]
         IN  <<[frequency |-> <<byte(1), byte(2), byte(3), byte(4)>>,
                intensity |-> <<byte(5), byte(6), byte(7), byte(8)>>]>>

\* d: the local CoyoteDevice (inner.ble_device).
parse_and_apply_strength(d, message) ==
    LET parts == trim_start_matches(message, "strength-")
    IN  IF Len(parts) # 3 THEN d
        ELSE IF parts[1] \notin {1, 2} THEN d
        ELSE IF parts[2] \notin 0..(U8 - 1) THEN d
        ELSE IF parts[3] \notin 0..(U8 - 1) THEN d
        ELSE LET channel       == IF parts[1] = 1 THEN 0 ELSE 1
                 mode          == parts[2]
                 value         == parts[3]
                 current_power == CoyGetPower(d, channel)
             IN  CASE mode = 0 ->
                        CoySetPower(d, channel, saturating_sub(current_power, value)).dev
                   [] mode = 1 ->
                        CoySetPower(d, channel,
                                    Min(saturating_add(current_power, value), 200)).dev
                   [] mode = 2 ->
                        CoySetPower(d, channel, Min(value, 200)).dev
                   [] OTHER -> d

\* Not implemented: the message is logged.
parse_and_apply_pulse(d, message) == d

parse_and_apply_clear(d, message) ==
    LET channel_str == trim_start_matches(message, "clear-")
    IN  IF channel_str \in {<<"1">>, <<"A">>} THEN CoySetPower(d, 0, 0).dev
        ELSE IF channel_str \in {<<"2">>, <<"B">>} THEN CoySetPower(d, 1, 0).dev
        ELSE d

handle_control_message(d, message) ==
    IF starts_with(message, "strength-") THEN parse_and_apply_strength(d, message)
    ELSE IF starts_with(message, "pulse-") THEN parse_and_apply_pulse(d, message)
    ELSE IF starts_with(message, "clear-") THEN parse_and_apply_clear(d, message)
    ELSE d

handle_ws_event(d, event) ==
    IF event.ev = "Other" THEN handle_control_message(d, event.msg.message) ELSE d

\* The payload sync_strength_to_ws formats; the limits are those of the
\* local device's info().
StrengthPayload(d, power_a, power_b) ==
    Payload("strength-", <<power_a, power_b, d.base.max_power_a, d.base.max_power_b>>)

\* lock: the task holding the inner.ws_client mutex; recv: the relay
\* receive task waits for the mutex ("lock"), waits in recv_event while
\* holding it ("recv"), or has left its loop ("done"); sync: the sync task
\* waits for a device event ("wait") or, inside sync_strength_to_ws, for
\* the mutex ("lock"); rx: the client's event channel; open: its sender is
\* alive; ble: the device events not yet received by the sync task; cur:
\* the status report being synchronised; reports: the status reports
\* published so far; sent: the payloads sent to the peer.
NoLink ==
    [lock |-> "free", recv |-> "done", sync |-> "done", rx |-> <<>>,
     open |-> FALSE, ble |-> <<>>, cur |-> <<>>, reports |-> 0, sent |-> <<>>]

\* The state of the tasks right after connect has started them.
LinkStarted ==
    [NoLink EXCEPT !.recv = "lock", !.sync = "wait", !.open = TRUE]

\* The receive task takes the mutex at the top of its loop.  The mutex is
\* fair: a task already waiting for it goes first.
ws_receive_lock(l) ==
    [l EXCEPT !.lock = "recv", !.recv = "recv"]

\* recv_event returns; the event is handled and the guard dropped at the
\* end of the loop body, or the loop is left.
ws_receive_event(d, l) ==
    IF l.rx # <<>>
    THEN [dev  |-> handle_ws_event(d, Head(l.rx)),
          link |-> [l EXCEPT !.rx = Tail(@), !.lock = "free", !.recv = "lock"]]
    ELSE [dev  |-> d,
          link |-> [l EXCEPT !.lock = "free", !.recv = "done"]]

\* handle_ble_event up to the lock() of sync_strength_to_ws.
handle_ble_event(l) ==
    LET event == Head(l.ble)
    IN  IF event.ev = "StatusReport"
        THEN [l EXCEPT !.ble = Tail(@), !.cur = <<event>>, !.sync = "lock"]
        ELSE [l EXCEPT !.ble = Tail(@)]

\* sync_strength_to_ws once it holds the mutex.
sync_strength_to_ws(w, l) ==
    LET power == l.cur[1]
        l1    == [l EXCEPT !.cur = <<>>, !.sync = "wait"]
    IN  IF w.ws_client = <<>> THEN l1
        ELSE IF client_id(w.ws_client[1]) = None \/ target_id(w.ws_client[1]) = None
        THEN l1
        ELSE [l1 EXCEPT !.sent =
                 Append(@, StrengthPayload(w.coy, power.power_a, power.power_b))]

(* SessionManager *)

\* Capacity of the broadcast channel of a device's events.
DeviceEventCapacity == 32

Ids == {"d1", "d2"}

\* A device handed to the registry; disconnects counts the calls of its
\* disconnect.
Device_new(id, name) ==
    [id |-> id, name |-> name, state |-> "Disconnected", disconnects |-> 0]

\* The forwarder task of a device and its broadcast receiver.  lagged: the
\* receiver has fallen behind by more than the capacity; closed: the sender
\* is dropped.
NoForwarder == [alive |-> FALSE, queue |-> <<>>, lagged |-> FALSE, closed |-> FALSE]

NoCall ==
    [op |-> "none", id |-> "none", res |-> "Ok", disc |-> "none",
     published |-> <<>>, spawned |-> FALSE, removed |-> <<>>]

\* devices: the registry; fwd: the forwarder spawned for the device of an
\* id; emitted / republished: the states of the StateChanged events the
\* device of an id has emitted since it was added, and those republished;
\* call: the call that has just returned, the session events it published,
\* whether it spawned a task and the device it took out of the registry.
SessionManager_new ==
    [devices     |-> [i \in Ids |-> <<>>],
     fwd         |-> [i \in Ids |-> NoForwarder],
     emitted     |-> [i \in Ids |-> <<>>],
     republished |-> [i \in Ids |-> <<>>],
     call        |-> NoCall]

StateChanged(state) == [ev |-> "StateChanged", state |-> state]

SessionEvent(ev, id) == [ev |-> ev, id |-> id]

\* broadcast::Sender::send as seen by one receiver: beyond the capacity the
\* oldest value is overwritten and the receiver lags.
broadcast_send(f, event) ==
    IF ~f.alive THEN f
    ELSE IF Len(f.queue) < DeviceEventCapacity
    THEN [f EXCEPT !.queue = Append(@, event)]
    ELSE [f EXCEPT !.queue = Append(Tail(@), event), !.lagged = TRUE]

get_device(m, id) == m.devices[id]

list_devices(m) == {i \in Ids : m.devices[i] # <<>>}

\* Variant of add_device without the contains_key check.
add_device_overwrite(m, device) ==
    LET id == device.id
    IN  [m EXCEPT !.devices[id] = <<device>>,
                  !.fwd[id] = [NoForwarder EXCEPT !.alive = TRUE],
                  !.emitted[id] = <<>>,
                  !.republished[id] = <<>>,
                  !.call = [NoCall EXCEPT !.op = "add", !.id = id,
                                          !.published = <<SessionEvent("DeviceAdded", id)>>,
                                          !.spawned = TRUE]]

add_device(m, device) ==
    LET id == device.id
    IN  IF m.devices[id] # <<>>
        THEN [m EXCEPT !.call = [NoCall EXCEPT !.op = "add", !.id = id,
                                               !.res = "DeviceAlreadyExists"]]
        ELSE [m EXCEPT !.devices[id] = <<device>>,
                       !.fwd[id] = [NoForwarder EXCEPT !.alive = TRUE],
                       !.emitted[id] = <<>>,
                       !.republished[id] = <<>>,
                       !.call = [NoCall EXCEPT !.op = "add", !.id = id,
                                               !.published = <<SessionEvent("DeviceAdded", id)>>,
                                               !.spawned = TRUE]]

\* The device's disconnect: on success the state becomes Disconnected and
\* a change of state is published to the device's subscribers.
device_disconnect(m, id, discOk) ==
    LET dev  == m.devices[id][1]
        dev1 == [dev EXCEPT !.disconnects = @ + 1,
                            !.state = IF discOk THEN "Disconnected" ELSE @]
    IN  IF discOk /\ dev.state # "Disconnected"
        THEN [m EXCEPT !.devices[id] = <<dev1>>,
                       !.fwd[id] = broadcast_send(@, StateChanged("Disconnected")),
                       !.emitted[id] = Append(@, "Disconnected")]
        ELSE [m EXCEPT !.devices[id] = <<dev1>>]

\* Variant of remove_device that returns the error of disconnect.
remove_device_propagates(m, id, discOk) ==
    IF m.devices[id] # <<>>
    THEN LET m1 == device_disconnect(m, id, discOk)
         IN  [m1 EXCEPT !.devices[id] = <<>>,
                        !.fwd[id].closed = TRUE,
                        !.call = [NoCall EXCEPT
                                    !.op = "remove", !.id = id,
                                    !.removed = m1.devices[id],
                                    !.res = IF discOk THEN "Ok" ELSE "Transport",
                                    !.disc = IF discOk THEN "ok" ELSE "failed",
                                    !.published =
                                        IF discOk
                                        THEN <<SessionEvent("DeviceRemoved", id)>>
                                        ELSE <<>>]]
    ELSE [m EXCEPT !.call = [NoCall EXCEPT !.op = "remove", !.id = id,
                                  !.published = <<SessionEvent("DeviceRemoved", id)>>]]

\* The removed device is dropped at the end of the call, which closes its
\* event channel.
remove_device(m, id, discOk) ==
    IF m.devices[id] # <<>>
    THEN LET m1 == device_disconnect(m, id, discOk)
         IN  [m1 EXCEPT !.devices[id] = <<>>,
                        !.fwd[id].closed = TRUE,
                        !.call = [NoCall EXCEPT
                                    !.op = "remove", !.id = id,
                                    !.removed = m1.devices[id],
                                    !.disc = IF discOk THEN "ok" ELSE "failed",
                                    !.published = <<SessionEvent("DeviceRemoved", id)>>]]
    ELSE [m EXCEPT !.call = [NoCall EXCEPT !.op = "remove", !.id = id,
                                  !.published = <<SessionEvent("DeviceRemoved", id)>>]]

\* A registered device publishes an event to its subscribers.
device_emit(m, id, event) ==
    IF event.ev = "StateChanged"
    THEN [m EXCEPT !.devices[id] = <<[m.devices[id][1] EXCEPT !.state = event.state]>>,
                   !.fwd[id] = broadcast_send(@, event),
                   !.emitted[id] = Append(@, event.state),
                   !.call = NoCall]
    ELSE [m EXCEPT !.fwd[id] = broadcast_send(@, event), !.call = NoCall]

\* One recv of the forwarder's loop: while let Ok(event) = events.recv().
forward(m, id) ==
    LET f  == m.fwd[id]
        m0 == [m EXCEPT !.call = NoCall]
    IN  IF f.lagged
        THEN [m0 EXCEPT !.fwd[id] = [NoForwarder EXCEPT !.closed = f.closed]]
        ELSE IF f.queue # <<>>
        THEN LET event == Head(f.queue)
                 m1    == [m0 EXCEPT !.fwd[id].queue = Tail(@)]
             IN  IF event.ev = "StateChanged"
                 THEN [m1 EXCEPT !.republished[id] = Append(@, event.state)]
                 ELSE m1
        ELSE [m0 EXCEPT !.fwd[id] = [NoForwarder EXCEPT !.closed = f.closed]]

(* SessionManager under concurrent callers.  The registry is an           *)
(* RwLock<DeviceMap> and every device an RwLock<DeviceBox>; tokio's RwLock  *)
(* serves its waiters in the order they arrived.                           *)

Callers == {"t1", "t2"}

ReadOps == {"get", "list", "connect_all", "disconnect_all", "start_all", "stop_all"}

BulkOps == {"connect_all", "disconnect_all", "start_all", "stop_all"}

\* pc: "idle", "queued" (in devices.read()/write()), "held" (holds the
\* registry guard, in device.write()), "io" (holds both guards, in the
\* device's connect/disconnect/start/stop).  todo: the devices the call
\* has still to visit; cur: the device it is at.
IdleCall == [op |-> "none", id |-> "none", pc |-> "idle", todo |-> {}, cur |-> "none"]

\* keys: the ids in the registry; readers / writer: the holders of the
\* registry's guards; queue: the callers waiting for one, oldest first;
\* dlock: per device, the holder of its write guard.
NoSession ==
    [keys    |-> {},
     readers |-> {},
     writer  |-> None,
     queue   |-> <<>>,
     dlock   |-> [i \in Ids |-> None],
     call    |-> [t \in Callers |-> IdleCall]]

HoldsRegistry(s, t) == t \in s.readers \/ s.writer = t

\* The call reaches devices.read().await or devices.write().await.
session_call(s, t, op, id) ==
    [s EXCEPT !.queue = Append(@, t),
              !.call[t] = [IdleCall EXCEPT !.op = op, !.id = id, !.pc = "queued"]]

\* The oldest waiter can be granted its guard.
registry_grantable(s, t) ==
    /\ s.queue # <<>>
    /\ Head(s.queue) = t
    /\ s.writer = None
    /\ s.call[t].op \notin ReadOps => s.readers = {}

\* The guard is dropped when the call returns.
session_return(s, t) ==
    [s EXCEPT !.readers = @ \ {t},
              !.writer = IF @ = t THEN None ELSE @,
              !.call[t] = IdleCall]

\* The call is granted its guard and runs up to its next await.
registry_grant(s, t) ==
    LET c  == s.call[t]
        s1 == [s EXCEPT !.queue = Tail(@)]
    IN  CASE c.op \in {"get", "list"} -> session_return(s1, t)
          [] c.op = "add" ->
                session_return([s1 EXCEPT !.keys = @ \cup {c.id}], t)
          [] c.op = "remove" ->
                IF c.id \in s.keys
                THEN [s1 EXCEPT !.writer = t, !.keys = @ \ {c.id},
                                !.call[t].pc = "held", !.call[t].todo = {c.id}]
                ELSE session_return(s1, t)
          [] OTHER ->
                IF s.keys = {} THEN session_return(s1, t)
                ELSE [s1 EXCEPT !.readers = @ \cup {t},
                                !.call[t].pc = "held", !.call[t].todo = s.keys]

\* device.write().await is granted for one of the devices still to visit.
device_write(s, t, id) ==
    [s EXCEPT !.dlock[id] = t, !.call[t].pc = "io", !.call[t].cur = id]

\* The device's operation returns; its guard is dropped, and the call goes
\* to the next device or returns.
device_done(s, t) ==
    LET c    == s.call[t]
        todo == c.todo \ {c.cur}
        s1   == [s EXCEPT !.dlock[c.cur] = None]
    IN  IF todo = {} THEN session_return(s1, t)
        ELSE [s1 EXCEPT !.call[t].pc = "held", !.call[t].todo = todo,
                        !.call[t].cur = "none"]

(* The event stream of a BaseDevice and the transport of a CoyoteDevice.   *)
(* DeviceEvent::StatusReport is written as the device code constructs it.  *)

DeviceStates == {"Disconnected", "Connecting", "Connected", "Running", "Error"}

\* Events the log of a BaseDevice's published events keeps (the most
\* recent ones).
MaxEvents == 3

\* Events the log keeps when a whole CoyoteDevice is followed.
MaxKept == 1

\* Variant of set_state that publishes whether or not the state changes.
set_state_events_always(base, state) == <<StateChanged(state)>>

\* The events set_state publishes.
set_state_events(base, state) ==
    IF base.state # state THEN <<StateChanged(state)>> ELSE <<>>

\* The events BaseDevice::set_power publishes; base is the device after
\* the call, res its result.
set_power_events(base, res) ==
    IF res = "Ok" THEN <<[ev |-> "PowerChanged", power_a |-> base.power_a,
                          power_b |-> base.power_b]>>
    ELSE <<>>

ErrorEvent == [ev |-> "Error"]

StatusReport(power_a, power_b) ==
    [ev |-> "StatusReport", power_a |-> power_a, power_b |-> power_b]

NotifyMessage_parse(data) ==
    IF data = <<>> THEN [kind |-> "Unknown", resp |-> <<>>]
    ELSE IF data[1] = B1_HEAD /\ B1Response_decode(data) # <<>>
    THEN [kind |-> "Strength", resp |-> B1Response_decode(data)]
    ELSE [kind |-> "Unknown", resp |-> <<>>]

\* event_tx.send, for each of the events of new in turn: the log keeps the
\* most recent keep events.
Publish(w, new) ==
    LET all == w.events \o new
    IN  [w EXCEPT !.events = IF Len(all) <= w.keep THEN all
                             ELSE SubSeq(all, Len(all) - w.keep + 1, Len(all))]

\* device.send succeeded: consecutive B0 commands are noted once.
Sent(sent, frame) ==
    IF frame = "B0" /\ sent # <<>> /\ sent[Len(sent)] = "B0" THEN sent
    ELSE Append(sent, frame)

\* sent: the commands written to the transport since it was established;
\* rx: the notifications the transport has queued (BleDevice::data_rx);
\* events: the events published to the device's subscribers, the most
\* recent keep of them; releasing: disconnect awaits the transport's
\* disconnect; quiet: no set_power or set_waveform call was made since the
\* last stop() of a Running device.
NoWire == [sent |-> <<>>, rx |-> <<>>, events |-> <<>>, keep |-> MaxEvents,
           releasing |-> FALSE, quiet |-> FALSE]

\* What connect writes and publishes; d is the device before the call.
connect_io(d, w, connOk, bfOk) ==
    IF d.base.state = "Connected" THEN w
    ELSE LET e1          == set_state_events(d.base, "Connecting")
             established == ~d.protocol_device /\ d.ble_manager /\ connOk
             w1          == IF established
                            THEN [w EXCEPT !.sent = <<>>, !.rx = <<>>]
                            ELSE w
         IN  IF ~(d.protocol_device \/ established)
             THEN Publish(w, e1)
             ELSE IF ~bfOk
             THEN Publish(w1, e1)
             ELSE Publish([w1 EXCEPT !.sent = Sent(@, "BF")],
                          e1 \o <<StateChanged("Connected")>>)

disconnect_io(d, w, discOk) ==
    IF d.protocol_device /\ ~discOk THEN w
    ELSE Publish(w, set_state_events(d.base, "Disconnected"))

start_io(d, w) ==
    IF d.base.state # "Connected" THEN w
    ELSE Publish(w, <<StateChanged("Running")>>)

stop_io(d, w) ==
    IF d.base.state # "Running" THEN w
    ELSE Publish(w, <<StateChanged("Connected")>>)

\* One iteration of the output loop after build_b0 and encode.
output_loop_io(w, sendOk) ==
    IF sendOk THEN [w EXCEPT !.sent = Sent(@, "B0")]
    ELSE Publish(w, <<ErrorEvent>>)

heartbeat_io(d, w, sendOk) ==
    IF d.base.state = "Connected" /\ d.protocol_device /\ sendOk
    THEN [w EXCEPT !.sent = Sent(@, "B0")]
    ELSE w

heartbeat_res(d, sendOk) ==
    IF d.base.state = "Connected" /\ d.protocol_device /\ ~sendOk
    THEN "Transport" ELSE "Ok"

\* Variant of the receive task that reports only answers to a command.
receive_io_sequenced(w) ==
    LET msg == NotifyMessage_parse(Head(w.rx))
        w1  == [w EXCEPT !.rx = Tail(@)]
    IN  IF msg.kind = "Strength" /\ msg.resp[1].sequence # 0
        THEN Publish(w1, <<StatusReport(msg.resp[1].strength_a,
                                        msg.resp[1].strength_b)>>)
        ELSE w1

\* One iteration of the receive task: device.receive() returned a
\* notification.  (receive fails only when the channel is closed, and the
\* device the task holds keeps its sender.)
receive_io(w) ==
    LET msg == NotifyMessage_parse(Head(w.rx))
        w1  == [w EXCEPT !.rx = Tail(@)]
    IN  IF msg.kind = "Strength"
        THEN Publish(w1, <<StatusReport(msg.resp[1].strength_a,
                                        msg.resp[1].strength_b)>>)
        ELSE w1

(* The two mutexes of BridgeInner (ble_device, ws_client), the caller of  *)
(* the bridge and its forwarding tasks, one await at a time.  A task is    *)
(* <<"recv", g>> or <<"sync", g>>: g = 0 is the task whose JoinHandle the  *)
(* bridge holds, g > 0 one whose handle was overwritten by a later spawn.  *)

\* Forwarding tasks of each kind without a handle that the exploration
\* follows.
MaxStale == 1

Generations == 0..MaxStale

Caller == <<"caller", 0>>

RecvTask(g) == <<"recv", g>>

SyncTask(g) == <<"sync", g>>

Tasks == {RecvTask(g) : g \in Generations} \cup {SyncTask(g) : g \in Generations}

Parties == {Caller} \cup Tasks

Mutexes == {"ble", "ws"}

\* owner: the party holding each mutex's guard; pc: where each party is
\* (k? waits in lock().await of mutex k, recv waits in recv_event, wait
\* waits for a device event); op: the caller's call in progress; rx:
\* the relay client's event channel, the event a receive task is handling
\* still at its head; open: its sender is alive.
NoLocks ==
    [owner |-> [k \in Mutexes |-> <<>>],
     pc    |-> [p \in Parties |-> IF p = Caller THEN "idle" ELSE "none"],
     op    |-> "none",
     rx    |-> <<>>,
     open  |-> FALSE]

Holds(l, p, k) == l.owner[k] = <<p>>

Waits(l, p, k) == l.pc[p] = (IF k = "ble" THEN "ble?" ELSE "ws?")

TaskAlive(l, p) == l.pc[p] \notin {"none", "done"}

\* Mutex::lock().await returns the guard.
mutex_lock(l, p, k) == [l EXCEPT !.owner[k] = <<p>>]

\* The guards p holds go out of scope.
drop_guards(l, p) ==
    [l EXCEPT !.owner = [k \in Mutexes |-> IF l.owner[k] = <<p>> THEN <<>> ELSE l.owner[k]]]

\* handle.take() and abort(): the task is dropped at the await it is
\* suspended at, and its guards with it.
task_abort(l, p) == [drop_guards(l, p) EXCEPT !.pc[p] = "none"]

stop_ws_receive_task(l) == task_abort(l, RecvTask(0))

stop_sync_task(l) == task_abort(l, SyncTask(0))

FreeSlots(l, name) == {g \in 1..MaxStale : ~TaskAlive(l, <<name, g>>)}

\* self.<task> = Some(handle) over a handle of a task still alive: the
\* old task goes on without a handle.
handle_overwrite(l, name) ==
    LET old == <<name, 0>>
    IN  IF ~TaskAlive(l, old) THEN l
        ELSE LET g   == CHOOSE x \in FreeSlots(l, name) :
                            \A y \in FreeSlots(l, name) : x <= y
                 new == <<name, g>>
             IN  [l EXCEPT !.pc[new] = l.pc[old],
                           !.pc[old] = "none",
                           !.owner = [k \in Mutexes |->
                                         IF l.owner[k] = <<old>> THEN <<new>>
                                         ELSE l.owner[k]]]

start_ws_receive_task(l) ==
    [handle_overwrite(l, "recv") EXCEPT !.pc[RecvTask(0)] = "ws?"]

start_sync_task(l) ==
    [handle_overwrite(l, "sync") EXCEPT !.pc[SyncTask(0)] = "ble?"]

\* The handlers of handle_ws_event that reach inner.ble_device.lock().
awaits_ble_device(event) ==
    /\ event.ev = "Other"
    /\ LET m == event.msg.message
       IN  IF starts_with(m, "strength-")
           THEN LET parts == trim_start_matches(m, "strength-")
                IN  /\ Len(parts) = 3
                    /\ parts[1] \in {1, 2}
                    /\ parts[2] \in 0..(U8 - 1)
                    /\ parts[3] \in 0..(U8 - 1)
           ELSE IF starts_with(m, "pulse-") THEN FALSE
           ELSE IF starts_with(m, "clear-")
           THEN trim_start_matches(m, "clear-") \in {<<"1">>, <<"A">>, <<"2">>, <<"B">>}
           ELSE FALSE

\* The caller's call returns.
call_return(l) ==
    [drop_guards(l, Caller) EXCEPT !.pc[Caller] = "idle", !.op = "none"]

(* Inputs *)

ChannelInputs == {0, 1, 2}

OutPowers == {0, 80, 200, 201}

LoadPowers == {200}

WaveformConfigs == {[frequency |-> 100, intensity |-> 50]}

----------------------------------------------------------------------------
(* The output state under its two users: callers of set_power and the      *)
(* build_b0 step of the loop.                                              *)

InitOut ==
    /\ kind = "Coyote"
    /\ coy = CoyoteDevice_new(FALSE)
    /\ ws = WsCoyoteDevice_new
    /\ bridge = BleWsBridgeDevice_new
    /\ ws_client = <<>>
    /\ lastB0 = NoB0
    /\ ret = "Ok"
    /\ calls = NoCalls
    /\ lastVal = [c \in Channels |-> 0]
    /\ allocs = <<0, 0>>
    /\ lastFrame = <<>>
    /\ bindSeen = FALSE
    /\ waiter = NoWaiter
    /\ link = NoLink
    /\ mgr = SessionManager_new
    /\ sess = NoSession
    /\ codec = NoCodec
    /\ wire = NoWire
    /\ locks = NoLocks
    /\ atom = NoAtom

\* Detached output loops are explored up to MaxDetached.
Bounded(w) == w.coy.output_detached <= MaxDetached

\* A call through the Device interface returns r.res and leaves r.w.
Step(r) ==
    /\ Bounded(r.w)
    /\ coy' = r.w.coy
    /\ ws' = r.w.ws
    /\ bridge' = r.w.bridge
    /\ ws_client' = r.w.ws_client
    /\ ret' = r.res
    /\ UNCHANGED <<kind, lastB0, calls, lastVal, allocs, lastFrame, bindSeen, waiter, link, mgr, sess, codec, wire, locks, atom>>

Connect(io, bind, cid, pid) == Step(DevConnect(World, kind, io, bind, cid, pid))

Disconnect(io) == Step(DevDisconnect(World, kind, io))

Start == Step(DevStart(World, kind))

Stop(io) == Step(DevStop(World, kind, io))

SetPower(channel, power, io) == Step(DevSetPower(World, kind, channel, power, io))

SetWaveform(channel, config, io) ==
    Step(DevSetWaveform(World, kind, channel, config, io))

EmergencyStop(io) == Step(emergency_stop(World, kind, io))

\* set_power called on the device directly, its calls noted for the next
\* direct build.
DirectSetPower(channel, power) ==
    /\ kind = "Coyote"
    /\ LET r == CoySetPower(coy, channel, power)
       IN  /\ coy' = r.dev
           /\ ret' = r.res
           /\ calls' = NoteCall(calls, channel, r.res)
           /\ lastVal' = NoteVal(lastVal, channel, power, r.res)
    /\ UNCHANGED <<kind, ws, bridge, ws_client, lastB0, allocs, lastFrame, bindSeen, waiter, link, mgr, sess, codec, wire, locks, atom>>

ConnectBle(bfOk) ==
    /\ kind = "Bridge"
    /\ Step(BridgeConnectBle(World, bfOk))

\* Variant of the loop body that goes on after a failed send.
AfterSend_continues(d, loop, sendOk) == d

\* The loop body after build_b0: a failed send ends the loop.
AfterSend(d, loop, sendOk) ==
    IF sendOk \/ loop = "direct" THEN d
    ELSE IF loop = "held" THEN [d EXCEPT !.output_task = "Finished"]
    ELSE [d EXCEPT !.output_detached = @ - 1]

\* One build_b0, called directly (loop = "direct") or by the output loop
\* the handle refers to ("held") or by one no handle refers to ("detached").
\* lastB0 and allocs follow the commands returned to a direct caller; a
\* loop hands its command to the BLE connection.
Build(loop, sendOk) ==
    /\ kind \in {"Coyote", "Bridge"}
    /\ loop = "held" => coy.output_task = "Alive"
    /\ loop = "detached" => coy.output_detached > 0
    /\ LET b == build_b0(coy.output_state)
       IN  /\ coy' = AfterSend([coy EXCEPT !.output_state = b.state], loop, sendOk)
           /\ lastB0' = IF loop = "direct" THEN Built(b, calls) ELSE lastB0
           /\ allocs' = IF loop = "direct" /\ (b.need.a \/ b.need.b)
                        THEN <<allocs[2], b.cmd.sequence>>
                        ELSE allocs
    /\ calls' = IF loop = "direct" THEN NoCalls ELSE calls
    /\ UNCHANGED <<kind, ws, bridge, ws_client, ret, lastVal, lastFrame, bindSeen, waiter, link, mgr, sess, codec, wire, locks, atom>>

BuildB0 == Build("direct", TRUE)

\* The exploration stops handing out sequence numbers at MaxSeq.
CappedBuildB0 ==
    /\ \/ coy.output_state.sequence < MaxSeq
       \/ ~(coy.output_state.pending_strength_a \/ coy.output_state.pending_strength_b)
    /\ BuildB0

NextOut ==
    \/ \E channel \in ChannelInputs, power \in OutPowers : DirectSetPower(channel, power)
    \/ CappedBuildB0

SpecOut == InitOut /\ [][NextOut]_vars

\* Continuous load: a strength change is pending at every build.
LoadedBuildB0 ==
    /\ coy.output_state.pending_strength_a \/ coy.output_state.pending_strength_b
    /\ BuildB0

NextLoad ==
    \/ \E channel \in Channels, power \in LoadPowers : DirectSetPower(channel, power)
    \/ LoadedBuildB0

SpecLoad == InitOut /\ [][NextLoad]_vars

----------------------------------------------------------------------------
(* Device lifecycle: one device of one of the three kinds behind the       *)
(* Device interface, its background loops, and the relay session.          *)

Kinds == {"Coyote", "Ws", "Bridge"}

\* Number of transport operations a call of op attempts on a device of
\* kind k, and the outcomes the exploration draws for them.
Attempts(k, op) ==
    CASE op = "connect"        -> (IF k = "Coyote" THEN 2 ELSE 1)
      [] op = "disconnect"     -> (IF k = "Ws" THEN 0 ELSE 1)
      [] op = "stop"           -> (IF k = "Ws" THEN 2 ELSE 0)
      [] op = "set_power"      -> (IF k = "Ws" THEN 1 ELSE 0)
      [] op = "set_waveform"   -> (IF k = "Ws" THEN 1 ELSE 0)
      [] op = "emergency_stop" -> (IF k = "Ws" THEN 4 ELSE 0)

IOs(k, op) == {io \in [1..4 -> BOOLEAN] : \A i \in 1..4 : i > Attempts(k, op) => io[i]}

\* Outcome of wait_for_bind; only the bridge waits.
BindOutcomes(k) == IF k = "Bridge" THEN {"bound", "timeout"} ELSE {"bound"}

ClientIds == {"c1"}

PeerIds == {"p1"}

\* set_power calls of the exploration, as <<channel, power>>.
DevPowers == {<<0, 80>>, <<1, 60>>, <<0, 150>>, <<1, 0>>, <<0, 201>>, <<2, 0>>}

Frame(type, clientId, targetId, message) ==
    [json |-> TRUE, type |-> type, clientId |-> clientId, targetId |-> targetId,
     message |-> message]

NotJson == [json |-> FALSE]

DevFrames ==
    {Frame("bind", "c1", "", Text("targetId")),
     Frame("bind", "c1", "p1", Text("200"))}

Init ==
    /\ kind \in Kinds
    /\ coy = CoyoteDevice_new(kind = "Coyote")
    /\ ws = WsCoyoteDevice_new
    /\ bridge = BleWsBridgeDevice_new
    /\ ws_client = <<>>
    /\ lastB0 = NoB0
    /\ ret = "Ok"
    /\ calls = NoCalls
    /\ lastVal = [c \in Channels |-> 0]
    /\ allocs = <<0, 0>>
    /\ lastFrame = <<>>
    /\ bindSeen = FALSE
    /\ waiter = NoWaiter
    /\ link = NoLink
    /\ mgr = SessionManager_new
    /\ sess = NoSession
    /\ codec = NoCodec
    /\ wire = NoWire
    /\ locks = NoLocks
    /\ atom = NoAtom

\* One iteration of an output loop.
OutputLoopTick(loop, sendOk) ==
    /\ \/ coy.output_state.sequence < MaxLoopSeq
       \/ ~(coy.output_state.pending_strength_a \/ coy.output_state.pending_strength_b)
    /\ Build(loop, sendOk)

\* The session's receive task reads one text frame.
RelayFrame(frame) ==
    /\ ws_client # <<>>
    /\ ws_client[1].receiving
    /\ ws_client' = <<HandleText(ws_client[1], frame).client>>
    /\ lastFrame' = <<frame>>
    /\ bindSeen' = (bindSeen \/ IsBindSuccess(frame))
    /\ UNCHANGED <<kind, coy, ws, bridge, lastB0, ret, calls, lastVal, allocs, waiter, link, mgr, sess, codec, wire, locks, atom>>

\* The session's receive task reads a Close frame or an error.
RelayClose ==
    /\ ws_client # <<>>
    /\ ws_client[1].receiving
    /\ ws_client' = <<HandleClose(ws_client[1])>>
    /\ UNCHANGED <<kind, coy, ws, bridge, lastB0, ret, calls, lastVal, allocs,
                   lastFrame, bindSeen, waiter, link, mgr, sess, codec, wire, locks, atom>>

\* The exploration sets waveforms on the directly attached devices and
\* delivers relay frames to the session of the relay-only device.
Next ==
    \/ \E io \in IOs(kind, "connect"), bind \in BindOutcomes(kind),
          cid \in ClientIds, pid \in PeerIds :
          Connect(io, bind, cid, pid)
    \/ \E io \in IOs(kind, "disconnect") : Disconnect(io)
    \/ Start
    \/ \E io \in IOs(kind, "stop") : Stop(io)
    \/ \E cp \in DevPowers, io \in IOs(kind, "set_power") : SetPower(cp[1], cp[2], io)
    \/ \E channel \in Channels, config \in WaveformConfigs,
          io \in IOs(kind, "set_waveform") :
          kind # "Bridge" /\ SetWaveform(channel, config, io)
    \/ \E io \in IOs(kind, "emergency_stop") : EmergencyStop(io)
    \/ \E bfOk \in BOOLEAN : ConnectBle(bfOk)
    \/ \E loop \in {"held", "detached"}, sendOk \in BOOLEAN : OutputLoopTick(loop, sendOk)
    \/ \E frame \in DevFrames : kind = "Ws" /\ RelayFrame(frame)
    \/ kind = "Ws" /\ RelayClose

Spec == Init /\ [][Next]_vars

----------------------------------------------------------------------------
(* The relay session alone, under every frame the relay may send.          *)

RelayFrames ==
    {Frame("bind", "c1", "", Text("targetId")),
     Frame("bind", "c2", "", Text("targetId")),
     Frame("bind", "c1", "p1", Text("200")),
     Frame("BIND", "c2", "p2", Text("200")),
     Frame("bind", "c1", "p1", Text("400")),
     Frame("heartbeat", "c1", "p1", Text("200")),
     Frame("msg", "p1", "c1", Payload("strength-", <<11, 7, 100, 35>>)),
     Frame("msg", "p1", "c1", Payload("feedback-", <<3>>)),
     Frame("break", "c1", "p1", Text("209")),
     Frame("error", "c1", "p2", Text("200")),
     NotJson}

InitRelay ==
    /\ kind = "Ws"
    /\ coy = CoyoteDevice_new(FALSE)
    /\ ws = WsCoyoteDevice_new
    /\ bridge = BleWsBridgeDevice_new
    /\ ws_client = <<ClientState_connected>>
    /\ lastB0 = NoB0
    /\ ret = "Ok"
    /\ calls = NoCalls
    /\ lastVal = [c \in Channels |-> 0]
    /\ allocs = <<0, 0>>
    /\ lastFrame = <<>>
    /\ bindSeen = FALSE
    /\ waiter = NoWaiter
    /\ link = NoLink
    /\ mgr = SessionManager_new
    /\ sess = NoSession
    /\ codec = NoCodec
    /\ wire = NoWire
    /\ locks = NoLocks
    /\ atom = NoAtom

NextRelay ==
    \/ \E frame \in RelayFrames : RelayFrame(frame)
    \/ RelayClose

SpecRelay == InitRelay /\ [][NextRelay]_vars

----------------------------------------------------------------------------
(* The bridge's connect, one step of connect, of the client's receive task *)
(* or of the clock at a time.                                              *)

\* wait_for_bind's timeout in 500ms units (the bridge passes 20 seconds).
BindTimeoutTicks == 2

\* Undrained events up to which the exploration delivers frames other
\* than heartbeats.
MaxQueue == 2

HeartbeatFrame == Frame("heartbeat", "c1", "", Text("200"))

BindFrames ==
    {Frame("bind", "c1", "", Text("targetId")),
     Frame("bind", "c1", "p1", Text("200")),
     Frame("error", "c1", "", Text("400")),
     HeartbeatFrame,
     NotJson}

InitBind ==
    /\ kind = "Bridge"
    /\ coy = CoyoteDevice_new(FALSE)
    /\ ws = WsCoyoteDevice_new
    /\ bridge = BleWsBridgeDevice_new
    /\ ws_client = <<>>
    /\ lastB0 = NoB0
    /\ ret = "Ok"
    /\ calls = NoCalls
    /\ lastVal = [c \in Channels |-> 0]
    /\ allocs = <<0, 0>>
    /\ lastFrame = <<>>
    /\ bindSeen = FALSE
    /\ waiter = NoWaiter
    /\ link = NoLink
    /\ mgr = SessionManager_new
    /\ sess = NoSession
    /\ codec = NoCodec
    /\ wire = NoWire
    /\ locks = NoLocks
    /\ atom = NoAtom

\* connect up to the call of wait_for_bind.
ConnectBegin(connOk) ==
    /\ waiter.pc = "idle"
    /\ bridge.base.state # "Connected"
    /\ bridge' = [bridge EXCEPT !.base = set_state(bridge.base, "Connecting")]
    /\ IF connOk
       THEN /\ waiter' = [waiter EXCEPT !.pc = "check",
                                        !.client = <<ClientState_connected>>,
                                        !.rx = <<>>, !.elapsed = 0,
                                        !.result = "none", !.cause = "none",
                                        !.task = "read", !.pending = "none"]
            /\ ret' = ret
       ELSE /\ waiter' = waiter
            /\ ret' = "Other"
    /\ UNCHANGED <<kind, coy, ws, ws_client, lastB0, calls, lastVal, allocs,
                   lastFrame, bindSeen, link, mgr, sess, codec, wire, locks, atom>>

BindFrame(frame) ==
    /\ waiter.pc \in {"check", "recv"}
    /\ waiter.task = "read"
    /\ frame # HeartbeatFrame => Len(waiter.rx) < MaxQueue
    /\ waiter' = receive_frame(waiter, frame)
    /\ UNCHANGED <<kind, coy, ws, bridge, ws_client, lastB0, ret, calls, lastVal,
                   allocs, lastFrame, bindSeen, link, mgr, sess, codec, wire, locks, atom>>

BindSend ==
    /\ waiter.pc \in {"check", "recv"}
    /\ waiter.task = "send"
    /\ Len(waiter.rx) < EventChannelCapacity
    /\ waiter' = receive_send(waiter)
    /\ UNCHANGED <<kind, coy, ws, bridge, ws_client, lastB0, ret, calls, lastVal,
                   allocs, lastFrame, bindSeen, link, mgr, sess, codec, wire, locks, atom>>

BindClose ==
    /\ waiter.pc \in {"check", "recv"}
    /\ waiter.task = "read"
    /\ waiter' = [waiter EXCEPT !.client = <<HandleClose(waiter.client[1])>>,
                                !.task = "done"]
    /\ UNCHANGED <<kind, coy, ws, bridge, ws_client, lastB0, ret, calls, lastVal,
                   allocs, lastFrame, bindSeen, link, mgr, sess, codec, wire, locks, atom>>

WaitCheck ==
    /\ waiter.pc = "check"
    /\ ~StateLocked(waiter)
    /\ waiter' = wait_for_bind_check(waiter, BindTimeoutTicks)
    /\ UNCHANGED <<kind, coy, ws, bridge, ws_client, lastB0, ret, calls, lastVal,
                   allocs, lastFrame, bindSeen, link, mgr, sess, codec, wire, locks, atom>>

WaitRecv ==
    /\ waiter.pc = "recv"
    /\ waiter' = wait_for_bind_recv(waiter, BindTimeoutTicks)
    /\ UNCHANGED <<kind, coy, ws, bridge, ws_client, lastB0, ret, calls, lastVal,
                   allocs, lastFrame, bindSeen, link, mgr, sess, codec, wire, locks, atom>>

\* Time passes while wait_for_bind runs.
Tick ==
    /\ waiter.pc \in {"check", "recv"}
    /\ waiter.elapsed <= BindTimeoutTicks
    /\ waiter' = [waiter EXCEPT !.elapsed = @ + 1]
    /\ UNCHANGED <<kind, coy, ws, bridge, ws_client, lastB0, ret, calls, lastVal,
                   allocs, lastFrame, bindSeen, link, mgr, sess, codec, wire, locks, atom>>

\* connect from the return of wait_for_bind to its own return; the local
\* client is stored on success and dropped otherwise.
ConnectEnd ==
    /\ waiter.pc = "returned"
    /\ LET r == BridgeConnectEnd(World, waiter)
       IN  /\ bridge' = r.w.bridge
           /\ ws_client' = r.w.ws_client
           /\ ret' = r.res
    /\ waiter' = [waiter EXCEPT !.pc = "idle", !.client = <<>>, !.rx = <<>>,
                                !.task = "done", !.pending = "none"]
    /\ UNCHANGED <<kind, coy, ws, lastB0, calls, lastVal, allocs, lastFrame, bindSeen, link, mgr, sess, codec, wire, locks, atom>>

BindDisconnect ==
    /\ waiter.pc = "idle"
    /\ Step(BridgeDisconnect(World, TRUE))

NextBind ==
    \/ \E connOk \in BOOLEAN : ConnectBegin(connOk)
    \/ \E frame \in BindFrames : BindFrame(frame)
    \/ BindSend
    \/ BindClose
    \/ WaitCheck
    \/ WaitRecv
    \/ Tick
    \/ ConnectEnd
    \/ BindDisconnect

SpecBind == InitBind /\ [][NextBind]_vars

\* The tasks are scheduled and time passes.
FairSpecBind ==
    SpecBind /\ WF_vars(WaitCheck) /\ WF_vars(WaitRecv) /\ WF_vars(BindSend)
             /\ WF_vars(Tick)

----------------------------------------------------------------------------
(* The connected bridge, one step of one of its tasks at a time. *)

\* Events up to which the exploration lets the event channel fill.
MaxLinkQueue == 1

\* Status reports the local device publishes in the exploration.
MaxReports == 2

StrengthValues == {100, 255, -1}

\* The hex text "0a0a0a0a64646464".
HexFrame == <<0, 10, 0, 10, 0, 10, 0, 10, 6, 4, 6, 4, 6, 4, 6, 4>>

ControlPayloads ==
    {Payload("strength-", <<c, m, v>>) :
         c \in {1, 2, 3}, m \in {0, 1, 2, 3}, v \in StrengthValues}
    \cup {Payload("strength-", <<1, 2>>),
          Payload("strength-", <<11, 7, 100, 35>>),
          Payload("strength-strength-", <<1, 2, 100>>),
          Payload("feedback-", <<3>>),
          Payload("pulse-", <<"A", HexFrame>>),
          Payload("pulse-", <<"B", HexFrame>>),
          Text("hello")}
    \cup {Payload("clear-", <<c>>) : c \in {"1", "2", "A", "B", "C"}}

LinkFrames ==
    {Frame("msg", "p1", "c1", m) : m \in ControlPayloads}
    \cup {HeartbeatFrame, NotJson,
          Frame("break", "p1", "c1", Text("209")),
          Frame("notice", "p1", "c1", Text("hello"))}

StatusReports == {[ev |-> "StatusReport", power_a |-> 10, power_b |-> 20]}

\* The bridge after connect (relay up, ids assigned, peer bound) and
\* connect_ble.
LinkWorld ==
    LET w0 == [coy |-> CoyoteDevice_new(FALSE), ws |-> WsCoyoteDevice_new,
               bridge |-> BleWsBridgeDevice_new, ws_client |-> <<>>]
        w1 == BridgeConnect(w0, TRUE, "bound", "c1", "p1").w
    IN  BridgeConnectBle(w1, TRUE).w

InitLink ==
    /\ kind = "Bridge"
    /\ coy = LinkWorld.coy
    /\ ws = LinkWorld.ws
    /\ bridge = LinkWorld.bridge
    /\ ws_client = LinkWorld.ws_client
    /\ lastB0 = NoB0
    /\ ret = "Ok"
    /\ calls = NoCalls
    /\ lastVal = [c \in Channels |-> 0]
    /\ allocs = <<0, 0>>
    /\ lastFrame = <<>>
    /\ bindSeen = FALSE
    /\ waiter = NoWaiter
    /\ link = LinkStarted
    /\ mgr = SessionManager_new
    /\ sess = NoSession
    /\ codec = NoCodec
    /\ wire = NoWire
    /\ locks = NoLocks
    /\ atom = NoAtom

\* The client's receive task reads a frame and queues its event.
LinkFrame(frame) ==
    /\ link.open
    /\ Len(link.rx) < MaxLinkQueue
    /\ LET h == HandleText(ws_client[1], frame)
       IN  /\ ws_client' = <<h.client>>
           /\ link' = IF frame.json THEN [link EXCEPT !.rx = Append(@, h.event)]
                      ELSE link
    /\ UNCHANGED <<kind, coy, ws, bridge, lastB0, ret, calls, lastVal, allocs,
                   lastFrame, bindSeen, waiter, mgr, sess, codec, wire, locks, atom>>

\* The socket closes: the client's receive task ends and drops the sender.
LinkClose ==
    /\ link.open
    /\ ws_client' = <<HandleClose(ws_client[1])>>
    /\ link' = [link EXCEPT !.open = FALSE]
    /\ UNCHANGED <<kind, coy, ws, bridge, lastB0, ret, calls, lastVal, allocs,
                   lastFrame, bindSeen, waiter, mgr, sess, codec, wire, locks, atom>>

WsReceiveLock ==
    /\ link.recv = "lock"
    /\ link.lock = "free"
    /\ link.sync # "lock"
    /\ link' = ws_receive_lock(link)
    /\ UNCHANGED <<kind, coy, ws, bridge, ws_client, lastB0, ret, calls, lastVal,
                   allocs, lastFrame, bindSeen, waiter, mgr, sess, codec, wire, locks, atom>>

WsReceiveEvent ==
    /\ link.recv = "recv"
    /\ (link.rx # <<>> \/ ~link.open)
    /\ LET r == ws_receive_event(coy, link)
       IN  /\ coy' = r.dev
           /\ link' = r.link
    /\ UNCHANGED <<kind, ws, bridge, ws_client, lastB0, ret, calls, lastVal,
                   allocs, lastFrame, bindSeen, waiter, mgr, sess, codec, wire, locks, atom>>

\* The local device publishes a status report (B1 feedback).
BleStatus(event) ==
    /\ link.sync # "done"
    /\ link.reports < MaxReports
    /\ link' = [link EXCEPT !.ble = Append(@, event), !.reports = @ + 1]
    /\ UNCHANGED <<kind, coy, ws, bridge, ws_client, lastB0, ret, calls, lastVal,
                   allocs, lastFrame, bindSeen, waiter, mgr, sess, codec, wire, locks, atom>>

\* The local device publishes an event of another kind.
BleOther ==
    /\ link.sync # "done"
    /\ link.ble = <<>>
    /\ link' = [link EXCEPT !.ble = Append(@, [ev |-> "BatteryUpdated"])]
    /\ UNCHANGED <<kind, coy, ws, bridge, ws_client, lastB0, ret, calls, lastVal,
                   allocs, lastFrame, bindSeen, waiter, mgr, sess, codec, wire, locks, atom>>

SyncTake ==
    /\ link.sync = "wait"
    /\ link.ble # <<>>
    /\ link' = handle_ble_event(link)
    /\ UNCHANGED <<kind, coy, ws, bridge, ws_client, lastB0, ret, calls, lastVal,
                   allocs, lastFrame, bindSeen, waiter, mgr, sess, codec, wire, locks, atom>>

SyncSend ==
    /\ link.sync = "lock"
    /\ link.lock = "free"
    /\ link' = sync_strength_to_ws(World, link)
    /\ UNCHANGED <<kind, coy, ws, bridge, ws_client, lastB0, ret, calls, lastVal,
                   allocs, lastFrame, bindSeen, waiter, mgr, sess, codec, wire, locks, atom>>

NextLink ==
    \/ \E frame \in LinkFrames : LinkFrame(frame)
    \/ LinkClose
    \/ WsReceiveLock
    \/ WsReceiveEvent
    \/ \E event \in StatusReports : BleStatus(event)
    \/ BleOther
    \/ SyncTake
    \/ SyncSend

SpecLink == InitLink /\ [][NextLink]_vars

\* Both tasks of the bridge are scheduled; the relay sends what it likes.
FairSpecLink ==
    SpecLink /\ WF_vars(WsReceiveLock) /\ WF_vars(WsReceiveEvent)
             /\ WF_vars(SyncTake) /\ WF_vars(SyncSend)

----------------------------------------------------------------------------
(* The session manager, one call or one step of a forwarder at a time. *)

\* Undrained events up to which a device publishes events other than
\* status reports.
MaxFwdQueue == 1

\* Changes of state a device publishes while registered, its disconnect
\* at removal not counted.
MaxEmits == 2

DeviceNames == {"n1", "n2"}

\* The device that publishes events in the exploration.
EmitIds == {"d1"}

DeviceEvents ==
    {StateChanged("Connected"), StateChanged("Running"), [ev |-> "StatusReport"]}

InitMgr ==
    /\ kind = "Coyote"
    /\ coy = CoyoteDevice_new(TRUE)
    /\ ws = WsCoyoteDevice_new
    /\ bridge = BleWsBridgeDevice_new
    /\ ws_client = <<>>
    /\ lastB0 = NoB0
    /\ ret = "Ok"
    /\ calls = NoCalls
    /\ lastVal = [c \in Channels |-> 0]
    /\ allocs = <<0, 0>>
    /\ lastFrame = <<>>
    /\ bindSeen = FALSE
    /\ waiter = NoWaiter
    /\ link = NoLink
    /\ mgr = SessionManager_new
    /\ sess = NoSession
    /\ codec = NoCodec
    /\ wire = NoWire
    /\ locks = NoLocks
    /\ atom = NoAtom

\* An id is added again only once the forwarder of its previous device
\* has ended.
AddDevice(id, name) ==
    /\ mgr.devices[id] = <<>> => ~mgr.fwd[id].alive
    /\ mgr' = add_device(mgr, Device_new(id, name))
    /\ UNCHANGED <<kind, coy, ws, bridge, ws_client, lastB0, ret, calls, lastVal,
                   allocs, lastFrame, bindSeen, waiter, link, sess, codec, wire, locks, atom>>

RemoveDevice(id, discOk) ==
    /\ mgr' = remove_device(mgr, id, discOk)
    /\ UNCHANGED <<kind, coy, ws, bridge, ws_client, lastB0, ret, calls, lastVal,
                   allocs, lastFrame, bindSeen, waiter, link, sess, codec, wire, locks, atom>>

DeviceEmit(id, event) ==
    /\ mgr.devices[id] # <<>>
    /\ Len(mgr.fwd[id].queue) < MaxFwdQueue
    /\ event.ev = "StateChanged" =>
          /\ event.state # mgr.devices[id][1].state
          /\ Len(mgr.emitted[id]) < MaxEmits
    /\ mgr' = device_emit(mgr, id, event)
    /\ UNCHANGED <<kind, coy, ws, bridge, ws_client, lastB0, ret, calls, lastVal,
                   allocs, lastFrame, bindSeen, waiter, link, sess, codec, wire, locks, atom>>

\* Status reports keep coming (one per output command while the device
\* runs) whether or not the forwarder has caught up.
StatusFlood(id) ==
    /\ mgr.devices[id] # <<>>
    /\ Len(mgr.fwd[id].queue) >= MaxFwdQueue
    /\ ~mgr.fwd[id].lagged
    /\ mgr.fwd[id].alive
    /\ mgr' = device_emit(mgr, id, [ev |-> "StatusReport"])
    /\ UNCHANGED <<kind, coy, ws, bridge, ws_client, lastB0, ret, calls, lastVal,
                   allocs, lastFrame, bindSeen, waiter, link, sess, codec, wire, locks, atom>>

Forward(id) ==
    /\ mgr.fwd[id].alive
    /\ mgr.fwd[id].lagged \/ mgr.fwd[id].queue # <<>> \/ mgr.fwd[id].closed
    /\ mgr' = forward(mgr, id)
    /\ UNCHANGED <<kind, coy, ws, bridge, ws_client, lastB0, ret, calls, lastVal,
                   allocs, lastFrame, bindSeen, waiter, link, sess, codec, wire, locks, atom>>

NextMgr ==
    \/ \E id \in Ids, name \in DeviceNames : AddDevice(id, name)
    \/ \E id \in Ids, discOk \in BOOLEAN : RemoveDevice(id, discOk)
    \/ \E id \in EmitIds, event \in DeviceEvents : DeviceEmit(id, event)
    \/ \E id \in Ids : Forward(id)

SpecMgr == InitMgr /\ [][NextMgr]_vars

NextFwd ==
    \/ NextMgr
    \/ \E id \in EmitIds : StatusFlood(id)

SpecFwd == InitMgr /\ [][NextFwd]_vars

\* Every forwarder task is scheduled.
FairSpecFwd == SpecFwd /\ \A id \in Ids : WF_vars(Forward(id))

----------------------------------------------------------------------------
(* The session manager under two concurrent callers, one await at a time. *)

SessionOps ==
    {"add", "remove", "get", "list", "connect_all", "disconnect_all",
     "start_all", "stop_all"}

InitSess ==
    /\ kind = "Coyote"
    /\ coy = CoyoteDevice_new(TRUE)
    /\ ws = WsCoyoteDevice_new
    /\ bridge = BleWsBridgeDevice_new
    /\ ws_client = <<>>
    /\ lastB0 = NoB0
    /\ ret = "Ok"
    /\ calls = NoCalls
    /\ lastVal = [c \in Channels |-> 0]
    /\ allocs = <<0, 0>>
    /\ lastFrame = <<>>
    /\ bindSeen = FALSE
    /\ waiter = NoWaiter
    /\ link = NoLink
    /\ mgr = SessionManager_new
    /\ sess = NoSession
    /\ codec = NoCodec
    /\ wire = NoWire
    /\ locks = NoLocks
    /\ atom = NoAtom

SessUnchanged ==
    UNCHANGED <<kind, coy, ws, bridge, ws_client, lastB0, ret, calls, lastVal,
                allocs, lastFrame, bindSeen, waiter, link, mgr, codec, wire, locks, atom>>

SessionCall(t, op, id) ==
    /\ sess.call[t].pc = "idle"
    /\ op \in {"list"} \cup BulkOps => id = "d1"
    /\ sess' = session_call(sess, t, op, id)
    /\ SessUnchanged

RegistryGrant(t) ==
    /\ sess.call[t].pc = "queued"
    /\ registry_grantable(sess, t)
    /\ sess' = registry_grant(sess, t)
    /\ SessUnchanged

DeviceWrite(t, id) ==
    /\ sess.call[t].pc = "held"
    /\ id \in sess.call[t].todo
    /\ sess.dlock[id] = None
    /\ sess' = device_write(sess, t, id)
    /\ SessUnchanged

DeviceDone(t) ==
    /\ sess.call[t].pc = "io"
    /\ sess' = device_done(sess, t)
    /\ SessUnchanged

NextSess ==
    \/ \E t \in Callers, op \in SessionOps, id \in Ids : SessionCall(t, op, id)
    \/ \E t \in Callers : RegistryGrant(t)
    \/ \E t \in Callers, id \in Ids : DeviceWrite(t, id)
    \/ \E t \in Callers : DeviceDone(t)

SpecSess == InitSess /\ [][NextSess]_vars

----------------------------------------------------------------------------
(* The codec: one value or one received buffer, encoded and decoded. *)

ModeNames == {"NoChange", "Increase", "Decrease", "Absolute"}

Waveforms ==
    {WaveformSilent, WaveformUniform(10, 100),
     [frequency |-> <<1, 2, 3, 4>>, intensity |-> <<5, 6, 7, 255>>]}

B0Commands ==
    [sequence      : {0, 1, 15, 16, 255},
     strength_mode : [channel_a : ModeNames, channel_b : ModeNames],
     strength_a    : {0, 100, 200, 201},
     strength_b    : {0, 1, 200, 255},
     waveform_a    : Waveforms,
     waveform_b    : Waveforms]

BFCommands ==
    [soft_limit_a : {0, 200, 255}, soft_limit_b : {0, 200},
     freq_balance_a : {0, 160}, freq_balance_b : {0, 255},
     intensity_balance_a : {0, 1}, intensity_balance_b : {0, 255}]

B1Responses ==
    [sequence : {0, 1, 16, 255}, strength_a : {0, 100, 201}, strength_b : {0, 200, 255}]

Shapes == {"B0", "BF", "B1"}

HeadOf(shape) ==
    CASE shape = "B0" -> B0_HEAD [] shape = "BF" -> BF_HEAD [] shape = "B1" -> B1_HEAD

LengthOf(shape) ==
    CASE shape = "B0" -> B0_LENGTH [] shape = "BF" -> BF_LENGTH
      [] shape = "B1" -> B1_LENGTH

\* Received buffers: every length up to one more than the longest shape,
\* first byte one of the headers or 0, byte i = i after it.
RawBuffers ==
    {[i \in 1..n |-> IF i = 1 THEN h ELSE i - 1] :
         n \in 0..(B0_LENGTH + 1), h \in {B0_HEAD, BF_HEAD, B1_HEAD, 0}}

CodecIn(shape, x) == [NoCodec EXCEPT !.shape = shape, !.stage = "in", !.x = x]

CodecRaw(shape, data) == [NoCodec EXCEPT !.shape = shape, !.stage = "raw", !.buf = data]

InitCodec ==
    /\ kind = "Coyote"
    /\ coy = CoyoteDevice_new(TRUE)
    /\ ws = WsCoyoteDevice_new
    /\ bridge = BleWsBridgeDevice_new
    /\ ws_client = <<>>
    /\ lastB0 = NoB0
    /\ ret = "Ok"
    /\ calls = NoCalls
    /\ lastVal = [c \in Channels |-> 0]
    /\ allocs = <<0, 0>>
    /\ lastFrame = <<>>
    /\ bindSeen = FALSE
    /\ waiter = NoWaiter
    /\ link = NoLink
    /\ mgr = SessionManager_new
    /\ sess = NoSession
    /\ wire = NoWire
    /\ locks = NoLocks
    /\ atom = NoAtom
    /\ \/ \E x \in B0Commands : codec = CodecIn("B0", x)
       \/ \E x \in BFCommands : codec = CodecIn("BF", x)
       \/ \E x \in B1Responses : codec = CodecIn("B1", x)
       \/ \E shape \in Shapes, data \in RawBuffers : codec = CodecRaw(shape, data)
       \/ \E x \in 0..(U16 - 1) : codec = CodecIn("freq", x)

CodecUnchanged ==
    UNCHANGED <<kind, coy, ws, bridge, ws_client, lastB0, ret, calls, lastVal,
                allocs, lastFrame, bindSeen, waiter, link, mgr, sess, wire, locks, atom>>

CodecEncode ==
    /\ codec.stage = "in"
    /\ codec.shape \in Shapes
    /\ codec' = [codec EXCEPT !.stage = "enc", !.buf = Encode(codec.shape, codec.x)]
    /\ CodecUnchanged

CodecDecode ==
    /\ codec.stage \in {"enc", "raw"}
    /\ codec.shape \in Shapes
    /\ codec' = [codec EXCEPT !.stage = IF @ = "enc" THEN "dec" ELSE "rawdec",
                              !.out = Decode(codec.shape, codec.buf)]
    /\ CodecUnchanged

Compress ==
    /\ codec.stage = "in"
    /\ codec.shape = "freq"
    /\ codec' = [codec EXCEPT !.stage = "enc", !.buf = <<compress_frequency(codec.x)>>]
    /\ CodecUnchanged

Decompress ==
    /\ codec.stage = "enc"
    /\ codec.shape = "freq"
    /\ codec' = [codec EXCEPT !.stage = "dec",
                              !.out = <<decompress_frequency(codec.buf[1])>>]
    /\ CodecUnchanged

NextCodec ==
    \/ CodecEncode
    \/ CodecDecode
    \/ Compress
    \/ Decompress

SpecCodec == InitCodec /\ [][NextCodec]_vars

----------------------------------------------------------------------------
(* BaseDevice::set_state alone. *)

InitBase ==
    /\ kind = "Coyote"
    /\ coy = CoyoteDevice_new(TRUE)
    /\ ws = WsCoyoteDevice_new
    /\ bridge = BleWsBridgeDevice_new
    /\ ws_client = <<>>
    /\ lastB0 = NoB0
    /\ ret = "Ok"
    /\ calls = NoCalls
    /\ lastVal = [c \in Channels |-> 0]
    /\ allocs = <<0, 0>>
    /\ lastFrame = <<>>
    /\ bindSeen = FALSE
    /\ waiter = NoWaiter
    /\ link = NoLink
    /\ mgr = SessionManager_new
    /\ sess = NoSession
    /\ codec = NoCodec
    /\ wire = NoWire
    /\ locks = NoLocks
    /\ atom = NoAtom

WireUnchanged ==
    UNCHANGED <<kind, ws, bridge, ws_client, lastB0, calls, lastVal, allocs,
                lastFrame, bindSeen, waiter, link, mgr, sess, codec, locks, atom>>

BasePowers == {0, 100, 101}

BaseSetState(state) ==
    /\ coy' = [coy EXCEPT !.base = set_state(coy.base, state)]
    /\ wire' = Publish(wire, set_state_events(coy.base, state))
    /\ UNCHANGED ret
    /\ WireUnchanged

BaseSetPowerCall(channel, power) ==
    /\ LET r == BaseSetPower(coy.base, channel, power)
       IN  /\ coy' = [coy EXCEPT !.base = r.base]
           /\ ret' = r.res
           /\ wire' = Publish(wire, set_power_events(r.base, r.res))
    /\ WireUnchanged

NextBase ==
    \/ \E state \in DeviceStates : BaseSetState(state)
    \/ \E channel \in ChannelInputs, power \in BasePowers :
          BaseSetPowerCall(channel, power)

SpecBase == InitBase /\ [][NextBase]_vars

(* A CoyoteDevice, its callers, its two tasks and its transport. *)

\* Commands (consecutive B0 noted once) up to which the exploration
\* follows one transport.
MaxSent == 4

\* Notifications up to which the transport's queue fills.
MaxInbound == 1

InboundFrames ==
    {<<B1_HEAD, 0, 10, 20>>, <<B1_HEAD, 7, 200, 0, 9>>,
     <<>>, <<B0_HEAD, 0, 10, 20>>, <<B1_HEAD, 1>>}

InitCoy ==
    /\ kind = "Coyote"
    /\ coy = CoyoteDevice_new(TRUE)
    /\ ws = WsCoyoteDevice_new
    /\ bridge = BleWsBridgeDevice_new
    /\ ws_client = <<>>
    /\ lastB0 = NoB0
    /\ ret = "Ok"
    /\ calls = NoCalls
    /\ lastVal = [c \in Channels |-> 0]
    /\ allocs = <<0, 0>>
    /\ lastFrame = <<>>
    /\ bindSeen = FALSE
    /\ waiter = NoWaiter
    /\ link = NoLink
    /\ mgr = SessionManager_new
    /\ sess = NoSession
    /\ codec = NoCodec
    /\ wire = [NoWire EXCEPT !.keep = MaxKept]
    /\ locks = NoLocks
    /\ atom = NoAtom

CoyCall(r, w) ==
    /\ r.dev.output_detached <= MaxDetached
    /\ Len(w.sent) <= MaxSent
    /\ coy' = r.dev
    /\ ret' = r.res
    /\ wire' = w
    /\ WireUnchanged

\* The calls take &mut self: none begins while disconnect awaits the
\* transport.
CoyConnectCall(connOk, bfOk) ==
    /\ ~wire.releasing
    /\ CoyCall(CoyConnect(coy, connOk, bfOk), connect_io(coy, wire, connOk, bfOk))

\* disconnect up to its await of the transport's disconnect: both handles
\* are aborted.  Without a transport the call runs to its end.
CoyDisconnectBegin ==
    /\ ~wire.releasing
    /\ IF coy.protocol_device
       THEN CoyCall([dev |-> stop_receive_task(stop_output_loop(coy)), res |-> ret],
                    [wire EXCEPT !.releasing = TRUE])
       ELSE CoyCall(CoyDisconnect(coy, TRUE), disconnect_io(coy, wire, TRUE))

\* disconnect from the return of the transport's disconnect on.
CoyDisconnectEnd(discOk) ==
    /\ wire.releasing
    /\ CoyCall(CoyDisconnect(coy, discOk),
               [disconnect_io(coy, wire, discOk) EXCEPT !.releasing = FALSE])

CoyStartCall ==
    /\ ~wire.releasing
    /\ CoyCall(CoyStart(coy), start_io(coy, wire))

CoyStopCall ==
    /\ ~wire.releasing
    /\ CoyCall(CoyStop(coy), stop_io(coy, wire))

CoyHeartbeat(sendOk) ==
    /\ ~wire.releasing
    /\ CoyCall([dev |-> coy, res |-> heartbeat_res(coy, sendOk)],
               heartbeat_io(coy, wire, sendOk))

\* One iteration of an output loop; a write succeeds only while the
\* transport is up.
CoyOutputTick(loop, sendOk) ==
    /\ loop = "held" => coy.output_task = "Alive"
    /\ loop = "detached" => coy.output_detached > 0
    /\ sendOk => coy.protocol_device
    /\ LET b == build_b0(coy.output_state)
       IN  CoyCall([dev |-> AfterSend([coy EXCEPT !.output_state = b.state], loop, sendOk),
                    res |-> ret],
                   output_loop_io(wire, sendOk))

\* The transport queues a notification.
Notify(data) ==
    /\ coy.protocol_device
    /\ Len(wire.rx) < MaxInbound
    /\ wire' = [wire EXCEPT !.rx = Append(@, data)]
    /\ UNCHANGED <<coy, ret>>
    /\ WireUnchanged

\* One iteration of the receive task.
CoyReceive ==
    /\ coy.receive_task = "Alive"
    /\ wire.rx # <<>>
    /\ wire' = receive_io(wire)
    /\ UNCHANGED <<coy, ret>>
    /\ WireUnchanged

NextCoy ==
    \/ \E connOk \in BOOLEAN, bfOk \in BOOLEAN : CoyConnectCall(connOk, bfOk)
    \/ CoyDisconnectBegin
    \/ \E discOk \in BOOLEAN : CoyDisconnectEnd(discOk)
    \/ CoyStartCall
    \/ CoyStopCall
    \/ \E sendOk \in BOOLEAN : CoyHeartbeat(sendOk)
    \/ \E loop \in {"held", "detached"}, sendOk \in BOOLEAN : CoyOutputTick(loop, sendOk)
    \/ \E data \in InboundFrames : Notify(data)
    \/ CoyReceive

SpecCoy == InitCoy /\ [][NextCoy]_vars

----------------------------------------------------------------------------
(* The bridge, its caller and its forwarding tasks at the mutexes. *)

\* Events up to which the relay client's channel fills.
MaxLockRx == 1

LockOps == {"heartbeat", "set_power", "stop", "start", "disconnect", "connect"}

LockFrames ==
    {Frame("msg", "p1", "c1", Payload("strength-", <<1, 2, 0>>)), HeartbeatFrame}

\* The client a successful connect holds after wait_for_bind.
BoundClient ==
    [ClientState_connected EXCEPT !.client_id = "c1", !.target_id = "p1"]

\* The state connect leaves: both tasks spawned, the relay open.
LocksStarted ==
    [start_sync_task(start_ws_receive_task(NoLocks)) EXCEPT !.open = TRUE]

InitLocks ==
    /\ kind = "Bridge"
    /\ coy = LinkWorld.coy
    /\ ws = LinkWorld.ws
    /\ bridge = LinkWorld.bridge
    /\ ws_client = LinkWorld.ws_client
    /\ lastB0 = NoB0
    /\ ret = "Ok"
    /\ calls = NoCalls
    /\ lastVal = [c \in Channels |-> 0]
    /\ allocs = <<0, 0>>
    /\ lastFrame = <<>>
    /\ bindSeen = FALSE
    /\ waiter = NoWaiter
    /\ link = NoLink
    /\ mgr = SessionManager_new
    /\ sess = NoSession
    /\ codec = NoCodec
    /\ wire = NoWire
    /\ locks = LocksStarted
    /\ atom = NoAtom

LockStep(w, res, l) ==
    /\ coy' = w.coy
    /\ ws' = w.ws
    /\ bridge' = w.bridge
    /\ ws_client' = w.ws_client
    /\ ret' = res
    /\ locks' = l
    /\ UNCHANGED <<kind, lastB0, calls, lastVal, allocs, lastFrame, bindSeen,
                   waiter, link, mgr, sess, codec, wire, atom>>

\* A call through the Device trait up to its first lock().await, or to its
\* return when it returns before.  relayOk: WsClient::connect and
\* wait_for_bind both succeed.
LockCall(op, relayOk) ==
    /\ locks.pc[Caller] = "idle"
    /\ LET begun(k) == [locks EXCEPT !.op = op,
                                     !.pc[Caller] = IF k = "ble" THEN "ble?" ELSE "ws?"]
       IN  CASE op \in {"heartbeat", "set_power"} ->
                  LockStep(World, ret, begun("ble"))
             [] op = "stop" ->
                  IF bridge.base.state = "Disconnected"
                  THEN LockStep(World, "Ok", locks)
                  ELSE LockStep(World, ret, begun("ble"))
             [] op = "start" ->
                  IF bridge.base.state # "Connected"
                  THEN LockStep(World, "DeviceNotConnected", locks)
                  ELSE LockStep(World, ret, begun("ble"))
             [] op = "disconnect" ->
                  IF bridge.base.state = "Disconnected"
                  THEN LockStep(World, "Ok", locks)
                  ELSE LET l1 == stop_sync_task(stop_ws_receive_task(locks))
                       IN  LockStep([World EXCEPT !.bridge = bridge_stop_tasks(bridge)],
                                    ret,
                                    [l1 EXCEPT !.op = op, !.pc[Caller] = "ble?"])
             [] op = "connect" ->
                  IF bridge.base.state = "Connected"
                  THEN LockStep(World, "Ok", locks)
                  ELSE LET w1 == [World EXCEPT !.bridge.base =
                                      set_state(bridge.base, "Connecting")]
                       IN  IF ~relayOk THEN LockStep(w1, "Other", locks)
                           ELSE LockStep(w1, ret, begun("ws"))

\* The caller's lock().await of ble_device returns, and the operation on
\* the local device follows.  ok: outcome of its transport operation.
CallerBle(ok) ==
    /\ Waits(locks, Caller, "ble")
    /\ locks.owner["ble"] = <<>>
    /\ LET l1 == mutex_lock(locks, Caller, "ble")
       IN  CASE locks.op = "set_power" ->
                  LET r == BridgeSetPower(World, 0, 0)
                  IN  LockStep(r.w, r.res, call_return(l1))
             [] locks.op = "stop" ->
                  LET r == BridgeStop(World)
                  IN  LockStep(r.w, r.res, call_return(l1))
             [] locks.op = "start" ->
                  LET r == BridgeStart(World)
                  IN  LockStep(r.w, r.res, call_return(l1))
             [] locks.op = "heartbeat" ->
                  IF heartbeat_res(coy, ok) # "Ok"
                  THEN LockStep(World, heartbeat_res(coy, ok), call_return(l1))
                  ELSE LockStep(World, ret, [l1 EXCEPT !.pc[Caller] = "ws?"])
             [] locks.op = "disconnect" ->
                  LockStep([World EXCEPT !.coy = CoyDisconnect(coy, ok).dev], ret,
                           [l1 EXCEPT !.pc[Caller] = "ws?"])

\* The caller's lock().await of ws_client returns, and the rest of the
\* call follows.  ok: outcome of the relay send.
CallerWs(ok) ==
    /\ Waits(locks, Caller, "ws")
    /\ locks.owner["ws"] = <<>>
    /\ CASE locks.op = "heartbeat" ->
              LockStep(World,
                       IF ws_client # <<>> /\ ~ok THEN "Other" ELSE "Ok",
                       call_return(locks))
         [] locks.op = "disconnect" ->
              LockStep([World EXCEPT !.ws_client = <<>>,
                                     !.bridge.base = set_state(bridge.base, "Disconnected")],
                       "Ok",
                       call_return([locks EXCEPT !.rx = <<>>, !.open = FALSE]))
         [] locks.op = "connect" ->
              /\ TaskAlive(locks, RecvTask(0)) => FreeSlots(locks, "recv") # {}
              /\ TaskAlive(locks, SyncTask(0)) => FreeSlots(locks, "sync") # {}
              /\ LET d1 == bridge_start_tasks(bridge)
                     l1 == [locks EXCEPT !.rx = <<>>, !.open = TRUE]
                 IN  LockStep([World EXCEPT !.ws_client = <<BoundClient>>,
                                            !.bridge = [d1 EXCEPT !.base =
                                                           set_state(d1.base, "Connected")]],
                              "Ok",
                              call_return(start_sync_task(start_ws_receive_task(l1))))

\* A relay receive task's lock().await of ws_client returns: the task
\* leaves its loop, or waits in recv_event with the guard.
RecvLock(g) ==
    /\ Waits(locks, RecvTask(g), "ws")
    /\ locks.owner["ws"] = <<>>
    /\ LockStep(World, ret,
                IF ws_client = <<>>
                THEN [locks EXCEPT !.pc[RecvTask(g)] = "done"]
                ELSE [mutex_lock(locks, RecvTask(g), "ws") EXCEPT
                          !.pc[RecvTask(g)] = "recv"])

\* recv_event returns in a relay receive task.
RecvEvent(g) ==
    /\ locks.pc[RecvTask(g)] = "recv"
    /\ locks.rx # <<>> \/ ~locks.open
    /\ LockStep(World, ret,
                IF locks.rx = <<>>
                THEN [drop_guards(locks, RecvTask(g)) EXCEPT !.pc[RecvTask(g)] = "done"]
                ELSE IF awaits_ble_device(Head(locks.rx))
                THEN [locks EXCEPT !.pc[RecvTask(g)] = "ble?"]
                ELSE [drop_guards(locks, RecvTask(g)) EXCEPT
                          !.rx = Tail(@), !.pc[RecvTask(g)] = "ws?"])

\* A relay receive task's lock().await of ble_device returns: the control
\* message is applied and both guards are dropped.
RecvApply(g) ==
    /\ Waits(locks, RecvTask(g), "ble")
    /\ locks.owner["ble"] = <<>>
    /\ LockStep([World EXCEPT !.coy = handle_ws_event(coy, Head(locks.rx))], ret,
                [drop_guards(locks, RecvTask(g)) EXCEPT
                     !.rx = Tail(@), !.pc[RecvTask(g)] = "ws?"])

\* A sync task's first lock().await of ble_device returns: it subscribes
\* and drops the guard.
SyncSubscribe(g) ==
    /\ Waits(locks, SyncTask(g), "ble")
    /\ ~Holds(locks, SyncTask(g), "ws")
    /\ locks.owner["ble"] = <<>>
    /\ LockStep(World, ret, [locks EXCEPT !.pc[SyncTask(g)] = "wait"])

\* The local device publishes a status report and a sync task receives
\* it.
SyncReport(g) ==
    /\ locks.pc[SyncTask(g)] = "wait"
    /\ LockStep(World, ret, [locks EXCEPT !.pc[SyncTask(g)] = "ws?"])

\* sync_strength_to_ws: lock().await of ws_client returns.
SyncClient(g) ==
    /\ Waits(locks, SyncTask(g), "ws")
    /\ locks.owner["ws"] = <<>>
    /\ LockStep(World, ret,
                IF \/ ws_client = <<>>
                   \/ client_id(ws_client[1]) = None
                   \/ target_id(ws_client[1]) = None
                THEN [locks EXCEPT !.pc[SyncTask(g)] = "wait"]
                ELSE [mutex_lock(locks, SyncTask(g), "ws") EXCEPT
                          !.pc[SyncTask(g)] = "ble?"])

\* sync_strength_to_ws: lock().await of ble_device returns; the limits are
\* read, the payload is sent and the guard of ws_client dropped.
SyncLimits(g) ==
    /\ Waits(locks, SyncTask(g), "ble")
    /\ Holds(locks, SyncTask(g), "ws")
    /\ locks.owner["ble"] = <<>>
    /\ LockStep(World, ret,
                [drop_guards(locks, SyncTask(g)) EXCEPT !.pc[SyncTask(g)] = "wait"])

\* The relay client queues the event of a frame.
LockInbound(frame) ==
    /\ locks.open
    /\ Len(locks.rx) < MaxLockRx
    /\ LockStep(World, ret, [locks EXCEPT !.rx = Append(@, from_message(frame))])

\* The socket closes.
LockClose ==
    /\ locks.open
    /\ LockStep(World, ret, [locks EXCEPT !.open = FALSE])

NextLocks ==
    \/ \E op \in LockOps, relayOk \in BOOLEAN : LockCall(op, relayOk)
    \/ \E ok \in BOOLEAN : CallerBle(ok)
    \/ \E ok \in BOOLEAN : CallerWs(ok)
    \/ \E g \in Generations : RecvLock(g)
    \/ \E g \in Generations : RecvEvent(g)
    \/ \E g \in Generations : RecvApply(g)
    \/ \E g \in Generations : SyncSubscribe(g)
    \/ \E g \in Generations : SyncReport(g)
    \/ \E g \in Generations : SyncClient(g)
    \/ \E g \in Generations : SyncLimits(g)
    \/ \E frame \in LockFrames : LockInbound(frame)
    \/ LockClose

SpecLocks == InitLocks /\ [][NextLocks]_vars

----------------------------------------------------------------------------
(* A connected CoyoteDevice under start, stop, set_power, set_waveform   *)
(* and the output loop behind its handle.  lastB0 is the command the loop  *)
(* transmitted last since the last stop().                                 *)

\* Sequence numbers the output loop of this exploration hands out.
MaxRestartSeq == 2

InitRestart ==
    /\ kind = "Coyote"
    /\ coy = CoyConnect(CoyoteDevice_new(TRUE), TRUE, TRUE).dev
    /\ ws = WsCoyoteDevice_new
    /\ bridge = BleWsBridgeDevice_new
    /\ ws_client = <<>>
    /\ lastB0 = NoB0
    /\ ret = "Ok"
    /\ calls = NoCalls
    /\ lastVal = [c \in Channels |-> 0]
    /\ allocs = <<0, 0>>
    /\ lastFrame = <<>>
    /\ bindSeen = FALSE
    /\ waiter = NoWaiter
    /\ link = NoLink
    /\ mgr = SessionManager_new
    /\ sess = NoSession
    /\ codec = NoCodec
    /\ wire = NoWire
    /\ locks = NoLocks
    /\ atom = NoAtom

RestartCall(r, w, b) ==
    /\ coy' = r.dev
    /\ ret' = r.res
    /\ wire' = w
    /\ lastB0' = b
    /\ UNCHANGED <<kind, ws, bridge, ws_client, calls, lastVal, allocs, lastFrame,
                   bindSeen, waiter, link, mgr, sess, codec, locks, atom>>

RestartStart == RestartCall(CoyStart(coy), wire, lastB0)

RestartStop ==
    RestartCall(CoyStop(coy),
                [wire EXCEPT !.quiet = @ \/ coy.base.state = "Running"],
                IF coy.base.state = "Running" THEN NoB0 ELSE lastB0)

RestartSetPower(channel, power) ==
    RestartCall(CoySetPower(coy, channel, power), [wire EXCEPT !.quiet = FALSE], lastB0)

RestartSetWaveform(channel, config) ==
    RestartCall(CoySetWaveform(coy, channel, config), [wire EXCEPT !.quiet = FALSE],
                lastB0)

\* One iteration of the output loop: build_b0, encode and a send that
\* succeeds.
RestartTick ==
    /\ coy.output_task = "Alive"
    /\ \/ coy.output_state.sequence < MaxRestartSeq
       \/ ~(coy.output_state.pending_strength_a \/ coy.output_state.pending_strength_b)
    /\ LET b == build_b0(coy.output_state)
       IN  RestartCall([dev |-> [coy EXCEPT !.output_state = b.state], res |-> ret],
                       wire, Built(b, NoCalls))

NextRestart ==
    \/ RestartStart
    \/ RestartStop
    \/ \E cp \in DevPowers : RestartSetPower(cp[1], cp[2])
    \/ \E channel \in ChannelInputs, config \in WaveformConfigs :
           RestartSetWaveform(channel, config)
    \/ RestartTick

SpecRestart == InitRestart /\ [][NextRestart]_vars

----------------------------------------------------------------------------
(* The local device of a started bridge under remote strength operations,  *)
(* local set_power calls and its output loop.                              *)

\* Sequence numbers up to which the output loop is followed.
MaxClampSeq == 1

\* Channel, mode and value of the peer's strength messages: decrease,
\* increase and set on both channels, then a channel, a mode and a value
\* (above u8) that are not accepted.
ClampValues == {150, 255}

ClampInputs ==
    {<<c, m, v>> : c \in {1, 2}, m \in {0, 1, 2}, v \in ClampValues}
        \cup {<<3, 1, 150>>, <<1, 3, 150>>, <<1, 1, 256>>}

ClampPowers == {<<0, 200>>, <<1, 0>>, <<0, 201>>, <<2, 0>>}

StrengthFrame(c, m, v) == Frame("msg", "p1", "c1", Payload("strength-", <<c, m, v>>))

ClampWorld == BridgeStart(LinkWorld).w

InitClamp ==
    /\ kind = "Bridge"
    /\ coy = ClampWorld.coy
    /\ ws = ClampWorld.ws
    /\ bridge = ClampWorld.bridge
    /\ ws_client = ClampWorld.ws_client
    /\ lastB0 = NoB0
    /\ ret = "Ok"
    /\ calls = NoCalls
    /\ lastVal = [c \in Channels |-> 0]
    /\ allocs = <<0, 0>>
    /\ lastFrame = <<>>
    /\ bindSeen = FALSE
    /\ waiter = NoWaiter
    /\ link = NoLink
    /\ mgr = SessionManager_new
    /\ sess = NoSession
    /\ codec = NoCodec
    /\ wire = NoWire
    /\ locks = NoLocks
    /\ atom = NoAtom

\* The relay receive task handles one strength message of the peer.
ClampRemote(c, m, v) ==
    /\ coy' = handle_ws_event(coy, HandleText(ws_client[1], StrengthFrame(c, m, v)).event)
    /\ ws_client' = <<HandleText(ws_client[1], StrengthFrame(c, m, v)).client>>
    /\ UNCHANGED <<kind, ws, bridge, lastB0, ret, calls, lastVal, allocs, lastFrame,
                   bindSeen, waiter, link, mgr, sess, codec, wire, locks, atom>>

\* set_power called on the bridge.
ClampSetPower(channel, power) ==
    /\ LET r == BridgeSetPower(World, channel, power)
       IN  /\ coy' = r.w.coy
           /\ bridge' = r.w.bridge
           /\ ret' = r.res
    /\ UNCHANGED <<kind, ws, ws_client, lastB0, calls, lastVal, allocs, lastFrame,
                   bindSeen, waiter, link, mgr, sess, codec, wire, locks, atom>>

\* One iteration of the local device's output loop.
ClampTick ==
    /\ coy.output_task = "Alive"
    /\ \/ coy.output_state.sequence < MaxClampSeq
       \/ ~(coy.output_state.pending_strength_a \/ coy.output_state.pending_strength_b)
    /\ LET b == build_b0(coy.output_state)
       IN  /\ coy' = [coy EXCEPT !.output_state = b.state]
           /\ lastB0' = Built(b, NoCalls)
    /\ UNCHANGED <<kind, ws, bridge, ws_client, ret, calls, lastVal, allocs, lastFrame,
                   bindSeen, waiter, link, mgr, sess, codec, wire, locks, atom>>

NextClamp ==
    \/ \E i \in ClampInputs : ClampRemote(i[1], i[2], i[3])
    \/ \E cp \in ClampPowers : ClampSetPower(cp[1], cp[2])
    \/ ClampTick

SpecClamp == InitClamp /\ [][NextClamp]_vars

----------------------------------------------------------------------------
(* set_power and the output loop's build_b0, one atomic operation at a     *)
(* time.                                                                   *)

\* set_power calls made in one exploration.
MaxWrites == 2

AtomPowers == {<<0, 80>>, <<0, 150>>, <<1, 60>>, <<0, 201>>}

InitAtom ==
    /\ kind = "Coyote"
    /\ coy = CoyStart(CoyConnect(CoyoteDevice_new(TRUE), TRUE, TRUE).dev).dev
    /\ ws = WsCoyoteDevice_new
    /\ bridge = BleWsBridgeDevice_new
    /\ ws_client = <<>>
    /\ lastB0 = NoB0
    /\ ret = "Ok"
    /\ calls = NoCalls
    /\ lastVal = [c \in Channels |-> 0]
    /\ allocs = <<0, 0>>
    /\ lastFrame = <<>>
    /\ bindSeen = FALSE
    /\ waiter = NoWaiter
    /\ link = NoLink
    /\ mgr = SessionManager_new
    /\ sess = NoSession
    /\ codec = NoCodec
    /\ wire = NoWire
    /\ locks = NoLocks
    /\ atom = [NoAtom EXCEPT !.writes = MaxWrites]

AtomStep(d, a, b, cs, lv, res) ==
    /\ coy' = d
    /\ atom' = a
    /\ lastB0' = b
    /\ calls' = cs
    /\ lastVal' = lv
    /\ ret' = res
    /\ UNCHANGED <<kind, ws, bridge, ws_client, allocs, lastFrame, bindSeen, waiter,
                   link, mgr, sess, codec, wire, locks>>

\* set_power up to and including its first store; a rejected call returns
\* before it.
AtomSetStore(channel, power) ==
    /\ atom.sp = <<>>
    /\ atom.writes > 0
    /\ LET r == CoySetPower(coy, channel, power)
       IN  IF r.res # "Ok"
           THEN AtomStep(coy, [atom EXCEPT !.writes = @ - 1], lastB0, calls, lastVal, r.res)
           ELSE AtomStep(set_power_op(coy, channel, power, 1),
                         [atom EXCEPT !.sp = <<channel, power>>], lastB0, calls, lastVal,
                         ret)

\* The rest of set_power; the call returns Ok.
AtomSetFlag ==
    /\ atom.sp # <<>>
    /\ AtomStep(set_power_op(coy, atom.sp[1], atom.sp[2], 2),
                [atom EXCEPT !.sp = <<>>, !.writes = @ - 1], lastB0,
                [calls EXCEPT ![atom.sp[1]] = "one"],
                [lastVal EXCEPT ![atom.sp[1]] = atom.sp[2]], "Ok")

\* pending_strength_a.swap(false)
AtomSwapA ==
    /\ coy.output_task = "Alive"
    /\ atom.pc = "swap_a"
    /\ AtomStep([coy EXCEPT !.output_state.pending_strength_a = FALSE],
                [atom EXCEPT !.pc = "swap_b",
                             !.need_a = coy.output_state.pending_strength_a],
                lastB0, calls, lastVal, ret)

\* pending_strength_b.swap(false), then the sequence number and the two
\* waveforms, which set_power does not touch.
AtomSwapB ==
    /\ coy.output_task = "Alive"
    /\ atom.pc = "swap_b"
    /\ LET need_b == coy.output_state.pending_strength_b
           s1     == [coy.output_state EXCEPT !.pending_strength_b = FALSE]
           alloc  == IF atom.need_a \/ need_b
                     THEN next_sequence(s1)
                     ELSE [state |-> s1, value |-> 0]
       IN  AtomStep([coy EXCEPT !.output_state = alloc.state],
                    [atom EXCEPT !.pc = "load_a", !.need_b = need_b,
                                 !.seq = alloc.value],
                    lastB0, calls, lastVal, ret)

\* target_strength_a.load()
AtomLoadA ==
    /\ coy.output_task = "Alive"
    /\ atom.pc = "load_a"
    /\ AtomStep(coy, [atom EXCEPT !.pc = "load_b",
                                  !.sa = coy.output_state.target_strength_a],
                lastB0, calls, lastVal, ret)

\* target_strength_b.load(); the command is encoded and its send succeeds.
AtomLoadB ==
    /\ coy.output_task = "Alive"
    /\ atom.pc = "load_b"
    /\ LET mode(need) == IF need THEN "Absolute" ELSE "NoChange"
           sb  == coy.output_state.target_strength_b
           cmd == [sequence      |-> atom.seq,
                   strength_mode |-> [channel_a |-> mode(atom.need_a),
                                      channel_b |-> mode(atom.need_b)],
                   strength_a    |-> atom.sa,
                   strength_b    |-> sb,
                   waveform_a    |-> coy.output_state.waveform_a,
                   waveform_b    |-> coy.output_state.waveform_b]
           b   == [cmd |-> cmd, need |-> [a |-> atom.need_a, b |-> atom.need_b]]
       IN  AtomStep(coy,
                    [atom EXCEPT !.pc = "swap_a", !.need_a = FALSE, !.need_b = FALSE,
                                 !.seq = 0, !.sa = 0,
                                 !.abs = [c \in Channels |->
                                             IF c = 0 /\ atom.need_a THEN <<atom.sa>>
                                             ELSE IF c = 1 /\ atom.need_b THEN <<sb>>
                                             ELSE @[c]]],
                    Built(b, NoCalls),
                    [c \in Channels |->
                        IF (c = 0 /\ atom.need_a) \/ (c = 1 /\ atom.need_b)
                        THEN "none" ELSE calls[c]],
                    lastVal, ret)

AtomTick == AtomSwapA \/ AtomSwapB \/ AtomLoadA \/ AtomLoadB

NextAtom ==
    \/ \E cp \in AtomPowers : AtomSetStore(cp[1], cp[2])
    \/ AtomSetFlag
    \/ AtomSwapA
    \/ AtomSwapB
    \/ AtomLoadA
    \/ AtomLoadB

SpecAtom == InitAtom /\ [][NextAtom]_vars

\* The output loop ticks every 100 ms while its task is alive, and a
\* set_power that has begun runs to its end.
FairSpecAtom == SpecAtom /\ WF_vars(AtomTick) /\ WF_vars(AtomSetFlag)

----------------------------------------------------------------------------
(* Claims about the output state *)

TargetOf(d, c) ==
    IF c = 0 THEN d.output_state.target_strength_a
    ELSE d.output_state.target_strength_b

\* C1: every command built by build_b0 carries a sequence number in 1..15
\* when at least one pending flag was set at the moment the build swapped
\* the flags out, and sequence 0 when neither flag was set.
C1_SequenceFollowsFlags ==
    lastB0.built =>
        IF lastB0.need.a \/ lastB0.need.b
        THEN lastB0.sequence \in 1..15
        ELSE lastB0.sequence = 0

C1_Witness ==
    /\ lastB0.built
    /\ lastB0.need.b /\ ~lastB0.need.a
    /\ lastB0.sequence = 2
    /\ allocs = <<1, 2>>

\* C2 (as claimed): under continuous load every sequence number handed out
\* lies in 1..15 and differs from the one handed out just before it.
C2_NoConsecutiveRepeat ==
    allocs[1] # 0 => (allocs[2] \in 1..15 /\ allocs[2] # allocs[1])

\* C3: a build that follows one or more completed set_power calls on a
\* channel carries Absolute for that channel; as long as no further call
\* has been made its strength is the value of the last call and the pending
\* flag is clear; a build that follows no call carries NoChange.
C3_Coalescing ==
    \A c \in Channels :
        lastB0.built =>
            /\ lastB0.coalesced[c] # "none" => ModeOf(lastB0, c) = "Absolute"
            /\ (lastB0.coalesced[c] # "none" /\ calls[c] = "none") =>
                   /\ StrengthOf(lastB0, c) = lastVal[c]
                   /\ ~PendingOf(coy, c)
            /\ lastB0.coalesced[c] = "none" => ModeOf(lastB0, c) = "NoChange"

C3_Witness ==
    /\ lastB0.built
    /\ lastB0.coalesced[0] = "many"
    /\ calls[0] = "none"
    /\ ModeOf(lastB0, 0) = "Absolute"
    /\ StrengthOf(lastB0, 0) = 80
    /\ lastB0.sequence = 2
    /\ ~PendingOf(coy, 0)

\* C7: set_power with a value above 200 or a channel other than 0 and 1
\* returns an error and leaves targets and pending flags as they were; any
\* other call succeeds, stores the value as that channel's target, sets
\* that channel's pending flag and leaves the other channel untouched.
C7_SetPowerRange ==
    [][\A channel \in ChannelInputs, power \in OutPowers :
          DirectSetPower(channel, power) =>
              IF power > 200 \/ channel \notin {0, 1}
              THEN /\ ret' \in {"PowerOutOfRange", "InvalidParameter"}
                   /\ coy'.output_state = coy.output_state
              ELSE /\ ret' = "Ok"
                   /\ TargetOf(coy', channel) = power
                   /\ PendingOf(coy', channel)
                   /\ TargetOf(coy', 1 - channel) = TargetOf(coy, 1 - channel)
                   /\ PendingOf(coy', 1 - channel) = PendingOf(coy, 1 - channel)]_vars

C7_Witness ==
    /\ ret = "PowerOutOfRange"
    /\ coy.output_state.target_strength_a = 200
    /\ coy.output_state.pending_strength_a
    /\ coy.output_state.target_strength_b = 0
    /\ ~coy.output_state.pending_strength_b

----------------------------------------------------------------------------
(* Claims about the device lifecycle *)

AliveLoops(d) == (IF d.output_task = "Alive" THEN 1 ELSE 0) + d.output_detached

AllOk == [i \in 1..4 |-> TRUE]

\* C4 (as claimed): whatever connect/start/stop/disconnect calls were made
\* on a CoyoteDevice, at most one of its output loops is alive.
C4_SingleOutputLoop ==
    kind = "Coyote" => AliveLoops(coy) <= 1

\* C5: start() on a device of any kind whose state is not Connected returns
\* the state error, spawns no task and leaves the device, its state and the
\* relay session as they were.
C5_StartRequiresConnected ==
    [][(DevState(World, kind) # "Connected" /\ Start) =>
          /\ ret' = "DeviceNotConnected"
          /\ coy' = coy
          /\ ws' = ws
          /\ bridge' = bridge
          /\ ws_client' = ws_client]_vars

C5_Witness ==
    /\ kind = "Bridge"
    /\ bridge.base.state = "Connecting"
    /\ coy.base.state = "Connected"
    /\ coy.output_task = None
    /\ ret = "DeviceNotConnected"

C8_BridgeSetPower ==
    [][\A cp \in DevPowers :
          (kind = "Bridge" /\ SetPower(cp[1], cp[2], AllOk)) =>
              /\ (cp[1] \in {0, 1} /\ cp[2] \in 0..200) => ret' = "Ok"
              /\ ret' # "Ok" =>
                    /\ \A c \in Channels :
                          /\ TargetOf(coy', c) = TargetOf(coy, c)
                          /\ PendingOf(coy', c) = PendingOf(coy, c)
                    /\ bridge'.base.power_a = bridge.base.power_a
                    /\ bridge'.base.power_b = bridge.base.power_b]_vars

\* C9 (as claimed): emergency stop on a Running device of any kind that
\* reports 80 on channel A and 60 on channel B leaves it Connected and
\* reporting 0 on both channels, whichever of its writes fail.
C9_EmergencyStop ==
    [][\A io \in IOs("Ws", "emergency_stop") :
          (/\ DevState(World, kind) = "Running"
           /\ DevGetPower(World, kind, 0) = 80
           /\ DevGetPower(World, kind, 1) = 60
           /\ EmergencyStop(io)) =>
              /\ DevState(World', kind) = "Connected"
              /\ DevGetPower(World', kind, 0) = 0
              /\ DevGetPower(World', kind, 1) = 0]_vars

----------------------------------------------------------------------------
(* Claims about the relay session *)

----------------------------------------------------------------------------
(* Claims about the bridge's connect and wait_for_bind *)

\* C11 (as claimed): a relay error message, a relay bind-timeout notice,
\* closure of the channel, success and the caller's own timeout are told
\* apart by what wait_for_bind returns: a returned value always stands for
\* the kind of cause that produced it the first time.
C11_DistinctOutcomes ==
    waiter.pc = "returned" =>
        CauseKind(waiter.cause) = waiter.firstKind[waiter.result]

\* C12 (as claimed): a wait_for_bind that has started returns, whatever
\* events arrive and however many of them.
C12_WaitReturns ==
    (waiter.pc \in {"check", "recv"}) ~> (waiter.pc = "returned")

\* C13 (as claimed): while connect is waiting for the binding and the relay
\* has assigned the client id, the bridge's qr_url returns a URL containing
\* that id.
C13_UrlBeforeBind ==
    (waiter.pc \in {"check", "recv"} /\ client_id(waiter.client[1]) # None) =>
        /\ BridgeQrUrl(World) # <<>>
        /\ Contains(BridgeQrUrl(World), client_id(waiter.client[1]))

----------------------------------------------------------------------------
(* Claims about the bridge's forwarding *)

\* The event comes from a frame of type msg.
FromMsgFrame(e) ==
    IF e.ev = "Other" THEN MessageType(e.msg.type) = "msg"
    ELSE e.ev \in {"Strength", "Feedback"}

IsStrengthOp(m) ==
    /\ m.head = "strength-"
    /\ Len(m.parts) = 3
    /\ m.parts[1] \in {1, 2}
    /\ m.parts[2] \in {0, 1, 2}
    /\ m.parts[3] \in 0..255

IsClearOp(m) ==
    m.head = "clear-" /\ m.parts \in {<<"1">>, <<"A">>, <<"2">>, <<"B">>}

\* The target a strength operation asks for, within the strength range.
Requested(current, mode, value) ==
    CASE mode = 0 -> Max(current - value, 0)
      [] mode = 1 -> Min(current + value, MAX_STRENGTH)
      [] OTHER    -> Min(value, MAX_STRENGTH)

\* C14 (as claimed): when the receive task of the bridge handles a msg
\* frame, a payload strength-{c}+{m}+{v} with c in {1,2}, m in {0,1,2} and
\* v in 0..=255 decreases, increases or sets the target of channel A (c=1)
\* or B (c=2) and leaves the other channel alone, clear-{1|A} and
\* clear-{2|B} set the channel's target to 0, every other payload leaves the
\* local device as it was, and the receive task goes on.
C14_Classification ==
    [][(link.recv = "recv" /\ link.rx # <<>> /\ WsReceiveEvent
        /\ FromMsgFrame(Head(link.rx))) =>
          LET e == Head(link.rx)
              m == IF e.ev = "Other" THEN e.msg.message ELSE Text("")
          IN  /\ link'.recv = "lock"
              /\ IF IsStrengthOp(m)
                 THEN LET c == m.parts[1] - 1
                      IN  /\ TargetOf(coy', c) =
                                Requested(TargetOf(coy, c), m.parts[2], m.parts[3])
                          /\ TargetOf(coy', 1 - c) = TargetOf(coy, 1 - c)
                 ELSE IF IsClearOp(m)
                 THEN LET c == IF m.parts[1] \in {"1", "A"} THEN 0 ELSE 1
                      IN  /\ TargetOf(coy', c) = 0
                          /\ TargetOf(coy', 1 - c) = TargetOf(coy, 1 - c)
                 ELSE coy' = coy]_vars

\* C15 (as claimed): when the receive task of the bridge handles a msg
\* frame with payload pulse-{A|B}:[...] whose frame is 16 hex digits, the
\* waveform of the named channel of the local device becomes the decoded
\* frame.
C15_PulseApplied ==
    [][(link.recv = "recv" /\ link.rx # <<>> /\ WsReceiveEvent
        /\ Head(link.rx).ev = "Other"
        /\ Head(link.rx).msg.message.head = "pulse-"
        /\ from_hex_string(Head(link.rx).msg.message.parts[2]) # <<>>) =>
          LET m == Head(link.rx).msg.message
              f == from_hex_string(m.parts[2])[1]
          IN  IF m.parts[1] = "A"
              THEN coy'.output_state.waveform_a = f
              ELSE coy'.output_state.waveform_b = f]_vars

\* C16 (as claimed): with the bridge connected and bound, every status
\* report of the local device is eventually followed by its strength frame
\* to the peer: the n-th report by the n-th frame sent.
C16_StatusSynced ==
    \A n \in 1..MaxReports :
        (link.reports >= n) ~> (Len(link.sent) >= n)

----------------------------------------------------------------------------
(* Claims about the tasks of a CoyoteDevice *)

\* C17 (as claimed): whatever connect/start/stop/disconnect calls were made
\* on a CoyoteDevice, when disconnect returns none of the output loops and
\* no feedback consumer spawned for the device is alive.
C17_NoTaskAfterDisconnect ==
    [][(kind = "Coyote" /\ \E io \in IOs("Coyote", "disconnect") : Disconnect(io)) =>
          /\ AliveLoops(coy') = 0
          /\ coy'.receive_task = None]_vars

----------------------------------------------------------------------------
(* Claims about the session manager *)

\* C18: add_device with an id that is already registered returns
\* DeviceAlreadyExists, leaves the registered device and the list of ids
\* as they were, publishes no session event and spawns no forwarder.
C18_DuplicateRejected ==
    [][\A id \in Ids, name \in DeviceNames :
          (mgr.devices[id] # <<>> /\ AddDevice(id, name)) =>
              /\ mgr'.call.res = "DeviceAlreadyExists"
              /\ mgr'.devices = mgr.devices
              /\ list_devices(mgr') = list_devices(mgr)
              /\ mgr'.call.published = <<>>
              /\ ~mgr'.call.spawned
              /\ mgr'.fwd = mgr.fwd]_vars

\* A device with another name was offered under a registered id and
\* rejected.
C18_Witness ==
    /\ mgr.call.op = "add"
    /\ mgr.call.res = "DeviceAlreadyExists"
    /\ mgr.devices[mgr.call.id] # <<>>
    /\ mgr.devices[mgr.call.id][1].name = "n1"

\* C19: remove_device of a registered id returns Ok whether or not the
\* device's disconnect failed; afterwards get_device finds nothing under
\* the id and list_devices does not contain it, disconnect was called once
\* on the removed device, DeviceRemoved(id) was published, and the devices
\* registered under other ids are as they were.
C19_RemoveDevice ==
    [][\A id \in Ids, discOk \in BOOLEAN :
          (mgr.devices[id] # <<>> /\ RemoveDevice(id, discOk)) =>
              /\ mgr'.call.res = "Ok"
              /\ get_device(mgr', id) = <<>>
              /\ id \notin list_devices(mgr')
              /\ mgr'.call.removed # <<>>
              /\ mgr'.call.removed[1].disconnects = mgr.devices[id][1].disconnects + 1
              /\ mgr'.call.removed[1].disconnects = 1
              /\ mgr'.call.published = <<SessionEvent("DeviceRemoved", id)>>
              /\ \A other \in Ids \ {id} :
                    mgr'.devices[other] = mgr.devices[other]]_vars

\* A device was removed although its disconnect failed, with another
\* device registered.
C19_Witness ==
    /\ mgr.call.op = "remove"
    /\ mgr.call.disc = "failed"
    /\ mgr.call.removed # <<>>
    /\ \E other \in Ids \ {mgr.call.id} : mgr.devices[other] # <<>>

\* C20 (as claimed): the n-th change of state a registered device has
\* published is eventually republished as the n-th DeviceStateChanged of
\* its id.
C20_StateForwarded ==
    \A id \in Ids : \A n \in 1..(MaxEmits + 1) :
        (Len(mgr.emitted[id]) >= n) ~>
            (/\ Len(mgr.republished[id]) >= n
             /\ Len(mgr.emitted[id]) >= n
             /\ mgr.republished[id][n] = mgr.emitted[id][n])

----------------------------------------------------------------------------
(* Claims about the session manager's locking *)

\* C21 (as claimed): no call of the session manager holds the guard of the
\* registry while it awaits a device's connect, disconnect, start or stop,
\* so a get_device, list_devices or add_device is never kept waiting for
\* the registry while another caller is inside a device's operation.
C21_NoLockAcrossDeviceIo ==
    \A t \in Callers :
        sess.call[t].pc = "io" =>
            /\ ~HoldsRegistry(sess, t)
            /\ \A u \in Callers \ {t} :
                   (sess.call[u].pc = "queued"
                    /\ sess.call[u].op \in {"get", "list", "add"})
                       => registry_grantable(sess, u)

----------------------------------------------------------------------------
(* Claims about the codec *)

\* C22: decode(encode(x)) = x for every B0Command with sequence in 0..=15
\* and both strengths in 0..=200, for every BFCommand and for every
\* B1Response.
C22_RoundTrip ==
    (/\ codec.stage = "dec"
     /\ codec.shape \in Shapes
     /\ codec.shape = "B0" =>
           /\ codec.x.sequence \in 0..15
           /\ codec.x.strength_a \in 0..MAX_STRENGTH
           /\ codec.x.strength_b \in 0..MAX_STRENGTH)
        => codec.out = <<codec.x>>

C22_Witness ==
    /\ codec.stage = "dec"
    /\ codec.shape = "B0"
    /\ codec.x.sequence = 15
    /\ codec.x.strength_a = 200
    /\ codec.x.strength_b = 1
    /\ codec.x.strength_mode = [channel_a |-> "Absolute", channel_b |-> "Decrease"]
    /\ codec.x.waveform_a # codec.x.waveform_b
    /\ codec.out = <<codec.x>>

\* C23 (as claimed): decode of a buffer whose length is not exactly that of
\* the shape (20, 7, 4), shorter or longer, or whose first byte is not the
\* shape's header, returns no value.
C23_DecodeRejects ==
    (/\ codec.stage = "rawdec"
     /\ \/ Len(codec.buf) # LengthOf(codec.shape)
        \/ codec.buf[1] # HeadOf(codec.shape))
        => codec.out = <<>>

\* C24: compress_frequency is non-decreasing on 10..=1000 and its result
\* lies in 10..=240 there; every 16-bit input below 10 or above 1000 maps
\* to 10.
C24_CompressMonotone ==
    (codec.shape = "freq" /\ codec.stage = "enc") =>
        IF codec.x \in 10..1000
        THEN /\ codec.buf[1] \in 10..240
             /\ \A y \in 10..1000 :
                    y <= codec.x => compress_frequency(y) <= codec.buf[1]
        ELSE codec.buf[1] = 10

C24_Witness ==
    /\ codec.shape = "freq"
    /\ codec.stage = "enc"
    /\ codec.x = 601
    /\ codec.buf = <<200>>

\* C25: decompress_frequency(compress_frequency(x)) = x for every x in
\* 10..=100.
C25_RoundTripDirect ==
    (codec.shape = "freq" /\ codec.stage = "dec" /\ codec.x \in 10..100)
        => codec.out = <<codec.x>>

C25_Witness ==
    /\ codec.shape = "freq"
    /\ codec.stage = "dec"
    /\ codec.x = 99
    /\ codec.out = <<99>>

\* The 2-bit code of a mode as the layout of byte 1 gives it.
ModeBits(mode) ==
    CASE mode = "NoChange" -> 0 [] mode = "Increase" -> 1
      [] mode = "Decrease" -> 2 [] mode = "Absolute" -> 3

\* C26 (as claimed): B0Command::encode always yields 20 bytes: 0xB0, then
\* sequence mod 16 in the high nibble with channel A's mode in bits 3-2 and
\* channel B's in bits 1-0, then the A and B strengths, then channel A's
\* four frequencies and four intensities, then channel B's.
C26_B0Layout ==
    (codec.shape = "B0" /\ codec.stage = "enc") =>
        LET x == codec.x
            b == codec.buf
        IN  /\ Len(b) = 20
            /\ b[1] = 176
            /\ b[2] = ((x.sequence % 16) * 16)
                        + ModeBits(x.strength_mode.channel_a) * 4
                        + ModeBits(x.strength_mode.channel_b)
            /\ b[3] = x.strength_a
            /\ b[4] = x.strength_b
            /\ SubSeq(b, 5, 8) = x.waveform_a.frequency
            /\ SubSeq(b, 9, 12) = x.waveform_a.intensity
            /\ SubSeq(b, 13, 16) = x.waveform_b.frequency
            /\ SubSeq(b, 17, 20) = x.waveform_b.intensity

\* C26 (amended): as C26, except that byte 2 is the A strength and byte 3
\* the B strength only when the strength is at most 200; a strength above
\* 200 is encoded as 0.
C26_B0LayoutInRange ==
    (codec.shape = "B0" /\ codec.stage = "enc") =>
        LET x == codec.x
            b == codec.buf
        IN  /\ Len(b) = 20
            /\ b[1] = 176
            /\ b[2] = ((x.sequence % 16) * 16)
                        + ModeBits(x.strength_mode.channel_a) * 4
                        + ModeBits(x.strength_mode.channel_b)
            /\ b[3] = IF x.strength_a <= 200 THEN x.strength_a ELSE 0
            /\ b[4] = IF x.strength_b <= 200 THEN x.strength_b ELSE 0
            /\ SubSeq(b, 5, 8) = x.waveform_a.frequency
            /\ SubSeq(b, 9, 12) = x.waveform_a.intensity
            /\ SubSeq(b, 13, 16) = x.waveform_b.frequency
            /\ SubSeq(b, 17, 20) = x.waveform_b.intensity

C26_Witness ==
    /\ codec.shape = "B0"
    /\ codec.stage = "enc"
    /\ codec.x.sequence = 16
    /\ codec.x.strength_mode = [channel_a |-> "Increase", channel_b |-> "Absolute"]
    /\ codec.x.strength_a = 201
    /\ codec.x.strength_b = 200
    /\ codec.x.waveform_a = WaveformUniform(10, 100)
    /\ SubSeq(codec.buf, 1, 4) = <<176, 7, 0, 200>>

----------------------------------------------------------------------------
(* Claims about the events and the transport of a device *)

\* The StateChanged events of the log, in order.
StateChanges(events) == SelectSeq(events, LAMBDA e : e.ev = "StateChanged")

\* C27: a call of set_state publishes StateChanged exactly when the state
\* asked for differs from the current one; a call asking for the current
\* state changes nothing and publishes nothing; no two consecutive
\* StateChanged events carry the same state.
C27_SetStateEvents ==
    /\ [](LET sc == StateChanges(wire.events)
          IN  \A i \in 1..(Len(sc) - 1) : sc[i].state # sc[i + 1].state)
    /\ [][\A state \in DeviceStates :
             BaseSetState(state) =>
                 IF coy.base.state # state
                 THEN /\ coy'.base.state = state
                      /\ wire' = Publish(wire, <<StateChanged(state)>>)
                 ELSE coy' = coy /\ wire' = wire]_vars

C27_Witness ==
    /\ Len(wire.events) = 3
    /\ wire.events[1] = StateChanged("Running")
    /\ wire.events[2].ev = "PowerChanged"
    /\ wire.events[3] = StateChanged("Connected")
    /\ coy.base.state = "Connected"

\* The LimitConfig commands among those written to the transport.
LimitConfigs(sent) == SelectSeq(sent, LAMBDA f : f = "BF")

\* C28 (as claimed): the device is Connected only after a LimitConfig was
\* written to the current transport, exactly one LimitConfig is written
\* per establishment of a transport, no OutputCommand is written to a
\* transport before its LimitConfig, and the receive task is started only
\* once the device is marked Connected.
C28_ConnectSequence ==
    /\ [](/\ coy.base.state = "Connected" => Len(LimitConfigs(wire.sent)) = 1
          /\ Len(LimitConfigs(wire.sent)) <= 1
          /\ wire.sent # <<>> => wire.sent[1] = "BF")
    /\ [][(coy.receive_task # "Alive" /\ coy'.receive_task = "Alive")
             => coy'.base.state = "Connected"]_vars

\* C29: when a write of the output loop fails, the loop publishes one Error
\* event, writes nothing again, and has ended; a loop runs again behind the
\* device's handle only through start().
C29_SendFailure ==
    [][/\ \A loop \in {"held", "detached"} :
              CoyOutputTick(loop, FALSE) =>
                  /\ wire' = Publish(wire, <<ErrorEvent>>)
                  /\ wire'.sent = wire.sent
                  /\ loop = "held" => coy'.output_task = "Finished"
                  /\ loop = "detached" =>
                         coy'.output_detached = coy.output_detached - 1
       /\ (coy.output_task = "Finished" /\ coy'.output_task = "Alive")
              => CoyStartCall]_vars

C29_Witness ==
    /\ coy.output_task = "Finished"
    /\ coy.base.state = "Running"
    /\ wire.events = <<ErrorEvent>>
    /\ wire.sent = <<"BF", "B0">>

\* C30: for every notification that decodes as a B1Response the receive
\* task publishes one StatusReport with its two strengths, whatever its
\* sequence and whatever came before it; a notification that does not
\* decode is dropped; either way the task goes on; and an output loop that
\* is alive can write whatever the state of the notifications.
C30_FeedbackConsumer ==
    /\ [][CoyReceive =>
             LET data == Head(wire.rx)
                 resp == B1Response_decode(data)
             IN  /\ coy'.receive_task = "Alive"
                 /\ wire'.rx = Tail(wire.rx)
                 /\ wire'.sent = wire.sent
                 /\ IF resp # <<>>
                    THEN wire'.events =
                             Publish(wire, <<StatusReport(resp[1].strength_a,
                                                          resp[1].strength_b)>>).events
                    ELSE wire'.events = wire.events]_vars
    /\ []((coy.output_task = "Alive" /\ Len(Sent(wire.sent, "B0")) <= MaxSent)
              => ENABLED CoyOutputTick("held", TRUE))

C30_Witness ==
    /\ coy.receive_task = "Alive"
    /\ coy.output_task = "Alive"
    /\ wire.events = <<StatusReport(200, 0)>>
    /\ wire.rx = <<<<B1_HEAD, 1>>>>

----------------------------------------------------------------------------
(* Claims about disconnect, stop and the relay session *)

\* C31 (as claimed): while disconnect awaits the release of the transport
\* no output loop of the device issues a send and no feedback consumer of
\* it is alive, and when disconnect returns Ok the state is Disconnected
\* and the device holds no transport.
C31_DisconnectOrder ==
    [][/\ wire.releasing =>
              /\ coy.receive_task = None
              /\ \A loop \in {"held", "detached"}, sendOk \in BOOLEAN :
                     ~CoyOutputTick(loop, sendOk)
       /\ \A discOk \in BOOLEAN :
              (CoyDisconnectEnd(discOk) /\ ret' = "Ok") =>
                  /\ coy'.base.state = "Disconnected"
                  /\ ~coy'.protocol_device]_vars

\* C32 (as claimed): a disconnect of a bridge that is not Disconnected,
\* from the moment it has stopped the forwarding tasks, runs with no
\* forwarding task of the bridge alive, and returns Ok with the state
\* Disconnected, no relay session held and no forwarding task alive,
\* whatever the local device's disconnect returned.
C32_BridgeDisconnect ==
    /\ [](locks.op = "disconnect" => \A p \in Tasks : ~TaskAlive(locks, p))
    /\ [][(locks.op = "disconnect" /\ locks'.op = "none") =>
             /\ ret' = "Ok"
             /\ bridge'.base.state = "Disconnected"
             /\ ws_client' = <<>>
             /\ bridge'.ws_receive_task = None
             /\ bridge'.sync_task = None
             /\ \A p \in Tasks : ~TaskAlive(locks', p)]_vars

\* C33 (as claimed): while a relay receive task is suspended in recv_event
\* with no inbound event to receive, no party waits for the mutex of the
\* relay session.
C33_NoLockWhileSuspended ==
    \A g \in Generations :
        (locks.pc[RecvTask(g)] = "recv" /\ locks.rx = <<>> /\ locks.open) =>
            \A p \in Parties : ~Waits(locks, p, "ws")

\* C36 (as claimed): no two parties of the bridge hold one of the two
\* mutexes each while waiting for the other's.
C36_NoLockCycle ==
    \A p \in Parties, q \in Parties :
        ~(/\ Holds(locks, p, "ble") /\ Waits(locks, p, "ws")
          /\ Holds(locks, q, "ws") /\ Waits(locks, q, "ble"))

\* C34: after stop() on a Running CoyoteDevice and start(), while no
\* set_power or set_waveform call was made since that stop, every command
\* the restarted loop transmits has both strengths 0 and both waveforms
\* silent.
C34_RestartSilent ==
    (wire.quiet /\ lastB0.built) =>
        /\ lastB0.strength_a = 0
        /\ lastB0.strength_b = 0
        /\ lastB0.waveform_a = WaveformSilent
        /\ lastB0.waveform_b = WaveformSilent

\* The set_power(0, 80) made before the stop was not transmitted: its
\* pending flag outlives the stop and the restarted loop sends Absolute 0.
C34_Witness ==
    /\ wire.quiet
    /\ lastB0.built
    /\ lastB0.strength_mode.channel_a = "Absolute"
    /\ lastB0.strength_a = 0
    /\ lastB0.sequence = 1
    /\ coy.base.power_a = 80
    /\ coy.base.state = "Running"

\* C35 (as claimed): once a bound relay session has read a break frame or
\* its connection has closed, it reports not bound and no peer id.
C35_TornDown ==
    [][/\ \A frame \in RelayFrames :
              (/\ RelayFrame(frame)
               /\ is_bound(ws_client[1])
               /\ HandleText(ws_client[1], frame).event.ev = "PeerDisconnected") =>
                  /\ ~is_bound(ws_client'[1])
                  /\ target_id(ws_client'[1]) = None
       /\ (RelayClose /\ is_bound(ws_client[1])) =>
              /\ ~is_bound(ws_client'[1])
              /\ target_id(ws_client'[1]) = None]_vars

\* C38 (as claimed): between calls a CoyoteDevice reports Running exactly
\* when one of its output loops is alive.
C38_RunningIffLoop ==
    ~wire.releasing =>
        (coy.base.state = "Running" <=>
             (coy.output_task = "Alive" \/ coy.output_detached > 0))

\* C40 (as claimed): a connect() that returns an error leaves the device
\* Disconnected or Error, and stop() never takes a device from Connecting
\* to Connected.
C40_ConnectErrorState ==
    [][/\ \A io \in IOs(kind, "connect"), bind \in BindOutcomes(kind),
             cid \in ClientIds, pid \in PeerIds :
              (Connect(io, bind, cid, pid) /\ ret' # "Ok") =>
                  DevState(World, kind)' \in {"Disconnected", "Error"}
       /\ \A io \in IOs(kind, "stop") :
              (DevState(World, kind) = "Connecting" /\ Stop(io)) =>
                  DevState(World, kind)' # "Connected"]_vars

\* C39: under remote strength operations applied by the bridge and local
\* set_power calls both targets of the local device stay in 0..200: a
\* remote increase leaves min(current + value, 200), a remote decrease
\* max(current - value, 0), a remote set min(value, 200), and every command
\* the loop transmits carries both strengths unchanged and at most 200.
C39_StrengthRange ==
    /\ [](/\ \A ch \in Channels : TargetOf(coy, ch) \in 0..MAX_STRENGTH
          /\ lastB0.built =>
                 /\ lastB0.strength_a <= MAX_STRENGTH
                 /\ lastB0.strength_b <= MAX_STRENGTH
                 /\ B0Command_encode(lastB0)[3] = lastB0.strength_a
                 /\ B0Command_encode(lastB0)[4] = lastB0.strength_b)
    /\ [][\A c \in {1, 2}, m \in {0, 1, 2}, v \in ClampValues :
              ClampRemote(c, m, v) =>
                  /\ TargetOf(coy', c - 1) =
                         CASE m = 0 -> Max(TargetOf(coy, c - 1) - v, 0)
                           [] m = 1 -> Min(TargetOf(coy, c - 1) + v, MAX_STRENGTH)
                           [] OTHER -> Min(v, MAX_STRENGTH)
                  /\ TargetOf(coy', 2 - c) = TargetOf(coy, 2 - c)]_vars

\* A command with 200 on channel A, reached by remote increases, and 50 on
\* channel B, reached by a remote set and a remote decrease; channel A was
\* decreased by the peer after the build.
C39_Witness ==
    /\ lastB0.built
    /\ lastB0.strength_a = 200
    /\ lastB0.strength_b = 50
    /\ lastB0.strength_mode.channel_b = "Absolute"
    /\ TargetOf(coy, 0) = 50
    /\ bridge.base.power_a = 0

\* C37: with set_power and build_b0 interleaved one atomic operation at a
\* time and the loop running, every accepted set_power on a channel is
\* followed by a transmitted command with mode Absolute on that channel,
\* and from some point on (no further writes) the last command with mode
\* Absolute on a written channel carries the last value written to it.
C37_NoLostWrite ==
    \A c \in Channels :
        /\ (calls[c] = "one") ~> (calls[c] = "none")
        /\ <>[](/\ calls[c] = "none"
                /\ atom.abs[c] \in {<<>>, <<lastVal[c]>>})

\* The loop swapped the flag of set_power(0, 80) out, loaded the target
\* stored by set_power(0, 150) before that call set its flag, and
\* transmitted Absolute 150.
C37_Witness ==
    /\ atom.sp = <<0, 150>>
    /\ lastVal[0] = 80
    /\ lastB0.built
    /\ lastB0.strength_mode.channel_a = "Absolute"
    /\ lastB0.strength_a = 150
    /\ lastB0.sequence = 1
    /\ atom.abs[0] = <<150>>

====
